---- MODULE Spec2Model ----
(***************************************************************************)
(* Event Planning Workflow of the day-planner backend: the plan store, the *)
(* four-stage birthday graph (calendar -> planner -> compose -> send) and  *)
(* the REST / natural-language handlers that edit a plan and re-run the    *)
(* graph; the virtual-clock task scheduler (tick_timeline) on the home-ops *)
(* timeline of a sent plan; and the steps of a theme edit and a tick that  *)
(* run at the same time on the server's worker threads.                    *)
(*                                                                         *)
(* Encoding.  Times are minutes of the day ("19:00" is 1140), dates are    *)
(* day numbers, a timestamp is day * 1440 + minute.  A dictionary key that *)
(* is absent is a sentinel value of the same type (NoTime, NoDate,         *)
(* NoSeq, "").  Fields the graph writes with a constant or recomputes from *)
(* the profile on every run (relation, event_type, theme_options,          *)
(* venue_options, timeline, next_actions) and the profile_id bookkeeping   *)
(* key carry no decision and are left out.  Of the invite preview the plan *)
(* keeps whether the key is absent, holds the empty text or a rendered     *)
(* text.                                                                   *)
(***************************************************************************)
EXTENDS Integers, Sequences, FiniteSets, TLC

VARIABLES PLAN_STORE, last, inflight

vars == <<PLAN_STORE, last, inflight>>

(* ---------------------------- bounds ----------------------------------- *)

\* longest list of emails a request carries
MaxEmails == 3

\* largest of the small step budgets a tick request carries
MaxStepBudget == 2

(* ---------------------------- value encoding --------------------------- *)

NoTime == -1
EmptyTime == -2
NoDate == 0
EmptyDate == -1
BadDate == -2
NoSeq == <<-1>>
NoResult == -1

\* datetime.now().date() of the run, as a day number
Today == 100

HHMM(h, m) == h * 60 + m

Falsy(v) == v \in {NoTime, EmptyTime, NoDate, EmptyDate}

Range(s) == {s[i] : i \in 1..Len(s)}

RECURSIVE Uniq(_)
\* first-seen-order deduplication: dict.fromkeys / the seen-set loops
Uniq(s) ==
    IF s = <<>> THEN <<>>
    ELSE LET front == Uniq(SubSeq(s, 1, Len(s) - 1))
             x == s[Len(s)]
         IN  IF x \in Range(front) THEN front ELSE Append(front, x)

Take(s, n) == SubSeq(s, 1, IF Len(s) < n THEN Len(s) ELSE n)

RECURSIVE SelectSeqBy(_, _)
\* list comprehension [e for e in s if e not in drop]
SelectSeqBy(s, drop) ==
    IF s = <<>> THEN <<>>
    ELSE LET rest == SelectSeqBy(Tail(s), drop)
         IN  IF Head(s) \in drop THEN rest ELSE <<Head(s)>> \o rest

(* ---------------------------- profiles --------------------------------- *)

\* DEMO_PROFILES entry "sarah_tech": the first day's blocks as sorted times,
\* the meta flags the planner reads (absent keys are FALSE, no likes)
DEMO_PROFILES ==
    [sarah_tech |->
        [days |-> <<HHMM(7,30), HHMM(9,0), HHMM(10,30), HHMM(12,30), HHMM(15,0),
                    HHMM(17,30), HHMM(18,30), HHMM(20,0)>>,
         prefers_home |-> FALSE, parties |-> FALSE, stressors |-> FALSE,
         family |-> <<[name |-> "Michael Chen", relation |-> "spouse",
                       email |-> "michael.chen@email.com", likes |-> {}],
                      [name |-> "Emily Chen", relation |-> "daughter",
                       email |-> "emily.chen@email.com", likes |-> {}]>>,
         colleagues |-> <<[name |-> "Alex Kumar", email |-> "alex.kumar@techco.com"],
                          [name |-> "Jessica Park", email |-> "jessica.park@techco.com"],
                          [name |-> "David Wilson", email |-> "david.wilson@techco.com"]>>]]

ProfileIds == DOMAIN DEMO_PROFILES

\* calendar_lookup: the events of the profile's first day, sorted by time;
\* the date argument is not used
calendar_lookup(profile) == profile.days

(* ---------------------------- plan ------------------------------------- *)

NoPlan == [stage |-> "none"]

\* the invite_preview key is absent
NoPreview == "absent"

EmptyPlan ==
    [date |-> NoDate, availability |-> NoSeq,
     time_options |-> NoSeq, time |-> NoTime,
     spouse_name |-> "", honoree_name |-> "",
     venue |-> "", theme |-> "", budget |-> 0, stage |-> "",
     invitees |-> <<>>, invitee_suggestions |-> <<>>,
     invite_message_template |-> "", invite_preview |-> NoPreview,
     invite_result |-> NoResult, ops_timeline |-> <<>>, ops |-> <<>>]

EmptyParams == [event_date |-> NoDate, spouse_name |-> "", has_budget |-> FALSE, budget |-> 0]

DefaultTemplate == "Hi {name}, You're invited to {spouse}'s surprise on {date} at {venue} {time}. RSVP: {rsvp}"
ToneDefaultTemplate == "Hi {name}, You're invited to {spouse}'s surprise on {date} at {venue}. RSVP: {rsvp}"

(* ---------------------------- graph helpers ---------------------------- *)

_suggest_themes(profile, honoree_likes) ==
    LET out == (IF honoree_likes \cap {"classical", "indian art", "ballet"} # {}
                THEN <<"Elegant Minimal">> ELSE <<>>)
               \o (IF honoree_likes \cap {"football", "f1", "ps5"} # {}
                   THEN <<"Sporty Fun">> ELSE <<>>)
               \o (IF profile.parties THEN <<"Lively Social">> ELSE <<>>)
               \o (IF profile.stressors THEN <<"Calm & Cozy">> ELSE <<>>)
        all == IF out = <<>> THEN <<"Warm & Minimal", "Modern Chic", "Cozy Home">> ELSE out
    IN  Take(Uniq(all), 3)

\* The window test "18:00" <= t <= "21:00" on times kept as minutes of the
\* day, the reading of a zero-padded clock text: for each time of the list,
\* whether it passes.
WindowByMinutes(availability) ==
    [t \in Range(availability) |-> HHMM(18,0) <= t /\ t <= HHMM(21,0)]

\* in_window is the outcome of the window test for each time of the list, in
\* the representation the times are kept in.
_suggest_times(availability, in_window) ==
    LET evening == SelectSeq(availability, LAMBDA t : in_window[t])
        opts == IF evening = <<>> THEN Take(availability, 3) ELSE evening
    IN  Take(Uniq(opts), 3)

\* tmpl.replace("{name}", sample): the text of the template with the sample
\* name in it, empty only for the empty template
ReplaceName(tmpl) == IF tmpl = "" THEN "empty" ELSE "rendered"

\* render_invite_preview: compose_message on the template, cut at 180
render_invite_preview(template) == IF template = "" THEN "empty" ELSE "rendered"

\* plan.get("availability", [])
GetAvailability(plan) == IF plan.availability = NoSeq THEN <<>> ELSE plan.availability

_invitee_suggestions(profile) ==
    LET emails == [i \in 1..Len(profile.family) |-> profile.family[i].email]
                  \o [i \in 1..Len(profile.colleagues) |-> profile.colleagues[i].email]
    IN  Take(Uniq(SelectSeq(emails, LAMBDA e : e # "")), 10)

\* the likes of the first family member whose name is the honoree's
HonoreeLikes(profile, spouse) ==
    LET hits == SelectSeq(profile.family, LAMBDA m : m.name = spouse)
    IN  IF hits = <<>> THEN {} ELSE hits[1].likes

\* every venue is taken for a home venue
ContainsHome_any(venue) == TRUE

\* "home" in venue.lower()
ContainsHome(venue) == venue \in {"Home", "Home - Backyard dinner", "HOME sweet home"}

HomeOpsKinds == <<"decide_menu", "grocery_shopping", "wifi_access", "secure_locks", "post_cleanup">>

\* the offsets the docstring of _schedule_home_ops announces
HomeOpsOffset_docstring ==
    [decide_menu |-> -3 * 1440, grocery_shopping |-> -1 * 1440,
     wifi_access |-> -120, secure_locks |-> 15, post_cleanup |-> 60]

\* the groceries are ordered one hour before the event
HomeOpsOffset_grocery_last_minute ==
    [decide_menu |-> -3 * 1440, grocery_shopping |-> -60,
     wifi_access |-> -120, secure_locks |-> 180, post_cleanup |-> 240]

\* timedelta offsets of the five add(...) calls, in minutes
HomeOpsOffset ==
    [decide_menu |-> -3 * 1440, grocery_shopping |-> -1 * 1440 - 120,
     wifi_access |-> -120, secure_locks |-> 180, post_cleanup |-> 240]

HomeOpsDuration ==
    [decide_menu |-> 120, grocery_shopping |-> 90,
     wifi_access |-> 30, secure_locks |-> 10, post_cleanup |-> 60]

_schedule_home_ops(plan) ==
    LET time == IF Falsy(plan.time) THEN HHMM(19,0) ELSE plan.time
        parsed == plan.date > 0
        event_dt == IF parsed THEN plan.date * 1440 + time
                    ELSE (Today + 7) * 1440 + HHMM(19,0)
    IN  [i \in 1..Len(HomeOpsKinds) |->
            LET kind == HomeOpsKinds[i]
                scheduled == event_dt + HomeOpsOffset[kind]
            IN  [kind |-> kind, scheduledAt |-> scheduled,
                 dueAt |-> scheduled + HomeOpsDuration[kind],
                 status |-> "scheduled", has_result |-> FALSE, result |-> <<>>]]

\* send_invites: the messaging collaborator reports how many it sent
send_invites(invitees) == Len(invitees)

(* ---------------------------- graph nodes ------------------------------ *)

node_calendar(plan, profile, params) ==
    LET date == IF Falsy(params.event_date) THEN Today + 14 ELSE params.event_date
        avail == Take(calendar_lookup(profile), 5)
        p1 == [plan EXCEPT !.date = date, !.availability = avail]
        p2 == IF params.spouse_name # ""
              THEN [p1 EXCEPT !.honoree_name = params.spouse_name] ELSE p1
    IN  IF p2.time_options = NoSeq
        THEN [p2 EXCEPT !.time_options = _suggest_times(GetAvailability(p2), WindowByMinutes(GetAvailability(p2)))]
        ELSE p2

node_plan_event(plan, profile, params) ==
    LET spouse == IF params.spouse_name # "" THEN params.spouse_name
                  ELSE IF plan.honoree_name # "" THEN plan.honoree_name ELSE "Spouse"
        budget == IF params.has_budget THEN params.budget ELSE 10000
        venue_default == IF profile.prefers_home THEN "Home" ELSE "Trendy lounge"
        theme_options == _suggest_themes(profile, HonoreeLikes(profile, spouse))
    IN  [plan EXCEPT
            !.spouse_name = spouse,
            !.honoree_name = IF plan.honoree_name # "" THEN plan.honoree_name ELSE spouse,
            !.venue = IF plan.venue # "" THEN plan.venue ELSE venue_default,
            !.theme = IF plan.theme # "" THEN plan.theme
                      ELSE IF theme_options # <<>> THEN theme_options[1] ELSE "Warm & Minimal",
            !.budget = budget,
            !.stage = IF plan.stage # "" THEN plan.stage ELSE "review_theme_venue"]

\* compose leaves a plan that is ready to send as it is
node_compose_invites_keeps_ready(plan, profile) ==
    IF plan.stage = "ready_to_send" THEN plan ELSE
    LET withOptions == IF plan.time_options = NoSeq
                       THEN [plan EXCEPT !.time_options =
                                    _suggest_times(GetAvailability(plan),
                                                   WindowByMinutes(GetAvailability(plan)))]
                       ELSE plan
    IN  IF plan.stage = "review_theme_venue" THEN withOptions
        ELSE IF Falsy(plan.time) THEN [withOptions EXCEPT !.stage = "pick_time"]
        ELSE IF plan.invitees = <<>> THEN
            [plan EXCEPT !.stage = "select_invitees",
                         !.invitee_suggestions =
                             IF plan.invitee_suggestions # <<>> THEN plan.invitee_suggestions
                             ELSE _invitee_suggestions(profile)]
        ELSE LET tmpl == IF plan.invite_message_template # ""
                         THEN plan.invite_message_template ELSE DefaultTemplate
             IN  [plan EXCEPT !.invite_message_template = tmpl,
                              !.invite_preview = ReplaceName(tmpl),
                              !.stage = "review_invite"]

\* compose without the gate on the invitee list
node_compose_invites_no_invitee_gate(plan, profile) ==
    LET withOptions == IF plan.time_options = NoSeq
                       THEN [plan EXCEPT !.time_options =
                                    _suggest_times(GetAvailability(plan),
                                                   WindowByMinutes(GetAvailability(plan)))]
                       ELSE plan
    IN  IF plan.stage = "review_theme_venue" THEN withOptions
        ELSE IF Falsy(plan.time) THEN [withOptions EXCEPT !.stage = "pick_time"]
        ELSE LET tmpl == IF plan.invite_message_template # ""
                         THEN plan.invite_message_template ELSE DefaultTemplate
             IN  [plan EXCEPT !.invite_message_template = tmpl,
                              !.invite_preview = ReplaceName(tmpl),
                              !.stage = "review_invite"]

node_compose_invites(plan, profile) ==
    LET withOptions == IF plan.time_options = NoSeq
                       THEN [plan EXCEPT !.time_options =
                                    _suggest_times(GetAvailability(plan),
                                                   WindowByMinutes(GetAvailability(plan)))]
                       ELSE plan
    IN  IF plan.stage = "review_theme_venue" THEN withOptions
        ELSE IF Falsy(plan.time) THEN [withOptions EXCEPT !.stage = "pick_time"]
        ELSE IF plan.invitees = <<>> THEN
            [plan EXCEPT !.stage = "select_invitees",
                         !.invitee_suggestions =
                             IF plan.invitee_suggestions # <<>> THEN plan.invitee_suggestions
                             ELSE _invitee_suggestions(profile)]
        ELSE LET tmpl == IF plan.invite_message_template # ""
                         THEN plan.invite_message_template ELSE DefaultTemplate
             IN  [plan EXCEPT !.invite_message_template = tmpl,
                              !.invite_preview = ReplaceName(tmpl),
                              !.stage = "review_invite"]

\* the send gate also lets a plan under review through
node_send_invites_at_review(plan) ==
    IF plan.stage \notin {"ready_to_send", "review_invite"} THEN plan
    ELSE LET sent == [plan EXCEPT !.invite_result = send_invites(plan.invitees),
                                  !.stage = "sent"]
         IN  IF ContainsHome(sent.venue)
             THEN [sent EXCEPT !.ops_timeline = _schedule_home_ops(sent)]
             ELSE sent

node_send_invites(plan) ==
    IF plan.stage # "ready_to_send" THEN plan
    ELSE LET sent == [plan EXCEPT !.invite_result = send_invites(plan.invitees),
                                  !.stage = "sent"]
         IN  IF ContainsHome(sent.venue)
             THEN [sent EXCEPT !.ops_timeline = _schedule_home_ops(sent)]
             ELSE sent

\* the plan as it enters the send node of BIRTHDAY_GRAPH: each node receives
\* the state its predecessor returned
GraphBeforeSend(plan, profile, params) ==
    CHOOSE composed \in
        {node_compose_invites(planned, profile) :
            planned \in {node_plan_event(looked_up, profile, params) :
                looked_up \in {node_calendar(plan, profile, params)}}} : TRUE

\* BIRTHDAY_GRAPH.invoke: START -> calendar -> planner -> compose -> send -> END
BIRTHDAY_GRAPH(plan, profile, params) ==
    node_send_invites(GraphBeforeSend(plan, profile, params))

(* ---------------------------- request inputs --------------------------- *)

Emails == {"a@x.com", "b@x.com"}

RECURSIVE SeqsUpTo(_, _)
SeqsUpTo(S, n) ==
    IF n = 0 THEN {<<>>}
    ELSE LET shorter == SeqsUpTo(S, n - 1)
         IN  shorter \cup {Append(s, x) : s \in shorter, x \in S}

EmailLists == SeqsUpTo(Emails, MaxEmails)

\* list(dict.fromkeys(req.invitees)) over the request lists
UniqueEmailLists == {Uniq(invitees) : invitees \in EmailLists}

\* set(req.emails) over the request lists
EmailSets == {Range(emails) : emails \in EmailLists}

\* the email lists tried through the natural-language endpoint
NlEmailLists == {<<>>, <<"b@x.com">>, <<"b@x.com", "a@x.com", "b@x.com">>}

SpouseInputs == {"", "Michael Chen"}
StartDateInputs == {NoDate, Today + 30}
DateInputs == {EmptyDate, BadDate, Today + 30}
TimeInputs == {EmptyTime, HHMM(19,0)}
ThemeInputs == {"", "Sporty Fun"}
VenueInputs == {"", "Home - Backyard dinner"}
TemplateInputs == {"", "Join us, {name}!"}
ToneTemplates == {"Join us, {name}!"}

IntBudget(n) == [kind |-> "int", int |-> n, word |-> "", digits |-> <<>>]
WordBudget(w) == [kind |-> "str", int |-> 0, word |-> w, digits |-> <<>>]
DigitsBudget(d) == [kind |-> "str", int |-> 0, word |-> "", digits |-> d]
NoBudget == [kind |-> "none", int |-> 0, word |-> "", digits |-> <<>>]

BudgetInputs == {IntBudget(5000), IntBudget(0), WordBudget("low"), WordBudget("lots"),
                 DigitsBudget(<<7, 5>>), NoBudget}

\* BudgetUpdateRequest.budget and the budget of an adjust_budget action
AdjustBudgetInputs == {IntBudget(5000), IntBudget(0), WordBudget("low")}

RECURSIVE ParseInt(_)
\* int(s) on a string of decimal digits
ParseInt(d) == IF d = <<>> THEN 0 ELSE 10 * ParseInt(SubSeq(d, 1, Len(d) - 1)) + d[Len(d)]

_normalize_budget_words_only(val) ==
    IF val.kind = "int" THEN val.int
    ELSE IF val.kind = "str" /\ val.word \in {"low", "small", "budget"} THEN 3000
    ELSE IF val.kind = "str" /\ val.word \in {"high", "large", "premium"} THEN 25000
    ELSE 10000

_normalize_budget(val) ==
    IF val.kind = "int" THEN val.int
    ELSE IF val.kind = "str" THEN
        IF val.word \in {"low", "small", "budget"} THEN 3000
        ELSE IF val.word \in {"medium", "med", "mid"} THEN 10000
        ELSE IF val.word \in {"high", "large", "premium"} THEN 25000
        ELSE IF val.digits # <<>> THEN ParseInt(val.digits)
        ELSE 10000
    ELSE 10000

\* truthiness of action.get("budget")
BudgetTruthy(val) ==
    \/ val.kind = "int" /\ val.int # 0
    \/ val.kind = "str" /\ (val.word # "" \/ val.digits # <<>>)

\* first family member whose relation is a spouse token, "" when none
_derive_spouse_name(profile) ==
    LET hits == SelectSeq(profile.family,
                          LAMBDA m : m.relation \in {"spouse", "wife", "husband", "partner"})
    IN  IF hits = <<>> THEN "" ELSE hits[1].name

\* rewrite_invite_template: the deterministic tweak or the LLM's text, never empty
rewrite_invite_template(current) == {current} \cup ToneTemplates

(* ---------------------------- task scheduler --------------------------- *)

\* the result is kept on the task only
PutOps_task_only(ops, kind, result) == ops

\* plan["ops"][kind] = result
PutOps(ops, kind, result) ==
    [k \in DOMAIN ops \cup {kind} |-> IF k = kind THEN result ELSE ops[k]]

\* the grocery list is made without looking at the decided menu
_run_task_ignores_menu(kind, plan) ==
    CASE kind = "decide_menu" ->
            LET guests == IF Len(plan.invitees) = 0 THEN 8 ELSE Len(plan.invitees)
            IN  [guests |-> guests,
                 veg |-> IF guests \div 3 > 2 THEN guests \div 3 ELSE 2,
                 dishes |-> 5]
      [] kind = "grocery_shopping" -> [list |-> 2 + 4, ordered |-> TRUE]
      [] kind = "wifi_access" -> [ssid |-> plan.spouse_name]
      [] kind = "secure_locks" -> [locks_engaged |-> TRUE]
      [] kind = "post_cleanup" -> [robot_started |-> TRUE, duration_min |-> 60]
      [] OTHER -> [ok |-> TRUE]

\* _run_task: the deterministic result of one task kind on the plan as the
\* loop has left it so far
_run_task(kind, plan) ==
    CASE kind = "decide_menu" ->
            LET guests == IF Len(plan.invitees) = 0 THEN 8 ELSE Len(plan.invitees)
            IN  [guests |-> guests,
                 veg |-> IF guests \div 3 > 2 THEN guests \div 3 ELSE 2,
                 dishes |-> 5]
      [] kind = "grocery_shopping" ->
            LET dishes == IF "decide_menu" \in DOMAIN plan.ops
                          THEN plan.ops["decide_menu"].dishes ELSE 2
            IN  [list |-> dishes + 4, ordered |-> TRUE]
      [] kind = "wifi_access" -> [ssid |-> plan.spouse_name]
      [] kind = "secure_locks" -> [locks_engaged |-> TRUE]
      [] kind = "post_cleanup" -> [robot_started |-> TRUE, duration_min |-> 60]
      [] OTHER -> [ok |-> TRUE]

\* the step budget is checked after it was overspent
BudgetSpent_late(steps, maxSteps) == steps > maxSteps

\* the loop stops before its first task whatever the budget
BudgetSpent_at_once(steps, maxSteps) == TRUE

\* if steps >= req.maxSteps: break
BudgetSpent(steps, maxSteps) == steps >= maxSteps

\* every status is taken for scheduled
IsScheduled_any(t) == TRUE

\* t.get("status") != "scheduled" -> continue
IsScheduled(t) == t.status = "scheduled"

\* the clock is not consulted
IsDue_always(t, now) == TRUE

\* sched <= now
IsDue(t, now) == t.scheduledAt <= now

\* t["status"] = "running"
MarkRunning(t) == [t EXCEPT !.status = "running"]

\* the task keeps the status it has while it runs
MarkDone_left_running(t, result) == [t EXCEPT !.has_result = TRUE, !.result = result]

\* the task is stamped with the start of the clock when it is done
MarkDone_restamped(t, result) ==
    [t EXCEPT !.status = "done", !.has_result = TRUE, !.result = result, !.scheduledAt = 0]

\* t["result"] = result; t["status"] = "done"
MarkDone(t, result) == [t EXCEPT !.status = "done", !.has_result = TRUE, !.result = result]

\* the for-loop of tick_timeline from task i on; steps is Len(processed),
\* since both grow together
RECURSIVE TickLoop(_, _, _, _, _)
TickLoop(plan, i, now, maxSteps, processed) ==
    IF i > Len(plan.ops_timeline) \/ BudgetSpent(Len(processed), maxSteps)
    THEN [plan |-> plan, processed |-> processed]
    ELSE LET t == plan.ops_timeline[i]
         IN  IF ~IsScheduled(t) \/ ~IsDue(t, now)
             THEN TickLoop(plan, i + 1, now, maxSteps, processed)
             ELSE LET result == _run_task(t.kind, plan)
                      ran == [plan EXCEPT
                                 !.ops = PutOps(plan.ops, t.kind, result),
                                 !.ops_timeline[i] = MarkDone(MarkRunning(t), result)]
                  IN  TickLoop(ran, i + 1, now, maxSteps, Append(processed, t.kind))

\* every task of the timeline is counted
Remaining_all_tasks(tasks) == Len(tasks)

\* remaining: the tasks still scheduled
Remaining(tasks) == Cardinality({i \in 1..Len(tasks) : tasks[i].status = "scheduled"})

(* ---------------------------- plan store ------------------------------- *)

\* thread ids are "<profile_id>:birthday:<timestamp>"; birthday_start opens
\* the thread stamped Today, a client-saved plan may sit under either stamp
ThreadIds == {[profile_id |-> p, ts |-> ts] : p \in ProfileIds, ts \in {Today, Today + 1}}

NoArg == [type |-> "none"]

\* requests in flight: what a handler that has started and not yet returned
\* holds in its local variables; Idle when every request ran to completion
IdleEdit == [pc |-> "idle"]
IdleTick == [pc |-> "idle"]
Idle == [theme |-> IdleEdit, tick |-> IdleTick]

_get_persisted_plan(thread_id) == PLAN_STORE[thread_id]

HasPlan(thread_id) == PLAN_STORE[thread_id] # NoPlan

\* _ensure_plan after its NotFound check
_ensure_plan(thread_id) == _get_persisted_plan(thread_id)

\* a request whose required field is empty or whose date does not parse; the
\* REST handlers name the field by their route, nl_command by action.type
InvalidInput(type, arg) ==
    LET requested == IF "type" \in DOMAIN arg THEN arg.type ELSE type
    IN  \/ requested = "change_theme" /\ arg.theme = ""
        \/ requested = "change_venue" /\ arg.venue = ""
        \/ requested = "choose_time" /\ arg.time = EmptyTime
        \/ requested = "change_date" /\ arg.event_date \in {EmptyDate, BadDate}

\* what the history variable keeps of a request: the action type, the stage
\* persisted before it, the emails of an add_invitees, the date of a
\* change_date, the normalized budget of an adjust_budget, whether the
\* handler's own edit left the plan as it was, and the plan as it entered the
\* send node (NoPlan when the handler does not run the graph), the thread,
\* and whether the request carried an invalid input
Request(type, thread_id, arg, edited, send_in) ==
    [type |-> type, pre_stage |-> PLAN_STORE[thread_id].stage,
     emails |-> IF type = "add_invitees" THEN arg.emails ELSE <<>>,
     event_date |-> IF type = "change_date" THEN arg.event_date ELSE NoDate,
     budget |-> IF type = "adjust_budget" THEN _normalize_budget(arg.budget) ELSE 0,
     value |-> IF type = "change_theme" THEN arg.theme
               ELSE IF type = "change_venue" THEN arg.venue ELSE "",
     noop |-> (edited = PLAN_STORE[thread_id]),
     send_in |-> send_in, thread_id |-> thread_id,
     invalid |-> InvalidInput(type, arg)]

\* _advance_graph: run the graph on the edited plan and persist the result
_advance_graph(type, thread_id, plan, arg) ==
    \E edited \in {plan} :
        \E send_in \in {GraphBeforeSend(edited, DEMO_PROFILES[thread_id.profile_id],
                                        EmptyParams)} :
            /\ PLAN_STORE' = [PLAN_STORE EXCEPT ![thread_id] = node_send_invites(send_in)]
            /\ last' = Request(type, thread_id, arg, edited, send_in)
            /\ UNCHANGED inflight

Init ==
    /\ PLAN_STORE = [t \in ThreadIds |-> NoPlan]
    /\ last = [type |-> "none", pre_stage |-> "none", emails |-> <<>>, event_date |-> NoDate,
               budget |-> 0, noop |-> FALSE, send_in |-> NoPlan]
    /\ inflight = Idle

birthday_start ==
    /\ \A t \in ThreadIds : ~HasPlan(t)
    /\ \E pid \in ProfileIds, spouse_name \in SpouseInputs,
          event_date \in StartDateInputs, budget \in BudgetInputs :
        LET profile == DEMO_PROFILES[pid]
            thread_id == [profile_id |-> pid, ts |-> Today]
            spouse == IF spouse_name # "" THEN spouse_name
                      ELSE IF _derive_spouse_name(profile) # ""
                           THEN _derive_spouse_name(profile) ELSE "Spouse"
            params == [event_date |-> event_date, spouse_name |-> spouse,
                       has_budget |-> TRUE, budget |-> _normalize_budget(budget)]
        IN  \E send_in \in {GraphBeforeSend(EmptyPlan, profile, params)} :
                /\ PLAN_STORE' = [PLAN_STORE EXCEPT ![thread_id] = node_send_invites(send_in)]
                /\ last' = Request("start", thread_id, NoArg, EmptyPlan, send_in)
                /\ UNCHANGED inflight

\* the theme edit also resets the chosen time
birthday_update_theme_resets_time ==
    \E thread_id \in ThreadIds :
        /\ HasPlan(thread_id)
        /\ \E theme \in ThemeInputs :
               _advance_graph("change_theme", thread_id,
                   [_ensure_plan(thread_id) EXCEPT !.theme = theme, !.time = NoTime,
                                                   !.stage = "review_theme_venue"],
                   [theme |-> theme])

birthday_update_theme ==
    \E thread_id \in ThreadIds :
        /\ HasPlan(thread_id)
        /\ \E theme \in ThemeInputs :
               _advance_graph("change_theme", thread_id,
                   [_ensure_plan(thread_id) EXCEPT !.theme = theme, !.stage = "review_theme_venue"],
                   [theme |-> theme])

birthday_update_venue ==
    \E thread_id \in ThreadIds :
        /\ HasPlan(thread_id)
        /\ \E venue \in VenueInputs :
               _advance_graph("change_venue", thread_id,
                   [_ensure_plan(thread_id) EXCEPT !.venue = venue, !.stage = "review_theme_venue"],
                   [venue |-> venue])

\* the reset loop leaves "time" out of its key list
birthday_update_date_keeps_time ==
    \E thread_id \in ThreadIds :
        /\ HasPlan(thread_id)
        /\ \E event_date \in DateInputs :
               _advance_graph("change_date", thread_id,
                   [_ensure_plan(thread_id) EXCEPT !.date = event_date, !.availability = NoSeq,
                                                   !.time_options = NoSeq],
                   [event_date |-> event_date])

birthday_update_date ==
    \E thread_id \in ThreadIds :
        /\ HasPlan(thread_id)
        /\ \E event_date \in DateInputs :
               _advance_graph("change_date", thread_id,
                   [_ensure_plan(thread_id) EXCEPT !.date = event_date, !.availability = NoSeq,
                                                   !.time_options = NoSeq, !.time = NoTime],
                   [event_date |-> event_date])

birthday_update_time ==
    \E thread_id \in ThreadIds :
        /\ HasPlan(thread_id)
        /\ \E time \in TimeInputs :
               _advance_graph("choose_time", thread_id,
                   [_ensure_plan(thread_id) EXCEPT !.time = time],
                   [time |-> time])

birthday_update_budget ==
    \E thread_id \in ThreadIds :
        /\ HasPlan(thread_id)
        /\ \E budget \in AdjustBudgetInputs :
               _advance_graph("adjust_budget", thread_id,
                   [_ensure_plan(thread_id) EXCEPT !.budget = _normalize_budget(budget)],
                   [budget |-> budget])

birthday_put_invitees ==
    \E thread_id \in ThreadIds :
        /\ HasPlan(thread_id)
        /\ \E unique \in UniqueEmailLists :
               _advance_graph("put_invitees", thread_id,
                   [_ensure_plan(thread_id) EXCEPT !.invitees = unique],
                   [emails |-> unique])

\* the membership test looks at the list as it was before the loop
AppendNew_stale_check(invitees, emails) ==
    invitees \o SelectSeqBy(emails, Range(invitees))

RECURSIVE AppendNew(_, _)
\* for e in emails: if e not in invitees: invitees.append(e)
AppendNew(invitees, emails) ==
    IF emails = <<>> THEN invitees
    ELSE AppendNew(IF Head(emails) \in Range(invitees) THEN invitees
                   ELSE Append(invitees, Head(emails)),
                   Tail(emails))

birthday_add_invitees ==
    \E thread_id \in ThreadIds :
        /\ HasPlan(thread_id)
        /\ \E emails \in EmailLists :
               _advance_graph("add_invitees", thread_id,
                   [_ensure_plan(thread_id) EXCEPT !.invitees = AppendNew(@, emails)],
                   [emails |-> emails])

birthday_remove_invitees ==
    \E thread_id \in ThreadIds :
        /\ HasPlan(thread_id)
        /\ \E remove \in EmailSets :
               _advance_graph("remove_invitees", thread_id,
                   [_ensure_plan(thread_id) EXCEPT !.invitees = SelectSeqBy(@, remove)],
                   [emails |-> remove])

\* the handler writes the first stage instead of invitees_confirmed
birthday_confirm_invitees_resets_stage ==
    \E thread_id \in ThreadIds :
        /\ HasPlan(thread_id)
        /\ _advance_graph("confirm_invitees", thread_id,
                [_ensure_plan(thread_id) EXCEPT !.stage = "review_theme_venue"], NoArg)

birthday_confirm_invitees ==
    \E thread_id \in ThreadIds :
        /\ HasPlan(thread_id)
        /\ _advance_graph("confirm_invitees", thread_id,
                [_ensure_plan(thread_id) EXCEPT !.stage = "invitees_confirmed"], NoArg)

\* the two preview endpoints store the plan without running the graph
StoreOnly(type, thread_id, plan, arg) ==
    /\ PLAN_STORE' = [PLAN_STORE EXCEPT ![thread_id] = plan]
    /\ last' = Request(type, thread_id, arg, plan, NoPlan)
    /\ UNCHANGED inflight

birthday_invites_tone ==
    \E thread_id \in ThreadIds :
        /\ HasPlan(thread_id)
        /\ LET plan == _ensure_plan(thread_id)
               current == IF plan.invite_message_template # ""
                          THEN plan.invite_message_template ELSE ToneDefaultTemplate
           IN  \E revised \in rewrite_invite_template(current) :
                   StoreOnly("edit_invite_tone", thread_id,
                       [plan EXCEPT !.invite_message_template = revised,
                                    !.invite_preview =
                                        render_invite_preview(revised)],
                       [template |-> revised])

birthday_invites_text ==
    \E thread_id \in ThreadIds :
        /\ HasPlan(thread_id)
        /\ \E template \in TemplateInputs :
               LET plan == _ensure_plan(thread_id)
               IN  StoreOnly("edit_invite_text", thread_id,
                       [plan EXCEPT !.invite_message_template = template,
                                    !.invite_preview =
                                        render_invite_preview(template)],
                       [template |-> template])

birthday_invites_ready ==
    \E thread_id \in ThreadIds :
        /\ HasPlan(thread_id)
        /\ _advance_graph("confirm_send", thread_id,
                [_ensure_plan(thread_id) EXCEPT !.stage = "ready_to_send"], NoArg)

birthday_invites_send ==
    \E thread_id \in ThreadIds :
        /\ HasPlan(thread_id)
        /\ _advance_graph("confirm_send", thread_id,
                [_ensure_plan(thread_id) EXCEPT !.stage = "ready_to_send"], NoArg)

(* ---------------------------- natural-language endpoint ---------------- *)

NlAction(type) ==
    [type |-> type, theme |-> "", venue |-> "", time |-> EmptyTime, event_date |-> EmptyDate,
     budget |-> NoBudget, emails |-> <<>>, template |-> ""]

\* client_action values; "propose_more_times" is a type the edit chain does not know
NlActions ==
    {[NlAction("change_theme") EXCEPT !.theme = v] : v \in ThemeInputs}
    \cup {[NlAction("change_venue") EXCEPT !.venue = v] : v \in VenueInputs}
    \cup {[NlAction("choose_time") EXCEPT !.time = v] : v \in TimeInputs}
    \cup {[NlAction("change_date") EXCEPT !.event_date = v] : v \in DateInputs}
    \cup {[NlAction("adjust_budget") EXCEPT !.budget = v] : v \in AdjustBudgetInputs}
    \cup {[NlAction("add_invitees") EXCEPT !.emails = v] : v \in NlEmailLists}
    \cup {[NlAction("remove_invitees") EXCEPT !.emails = v] : v \in NlEmailLists}
    \cup {[NlAction("edit_invite_text") EXCEPT !.template = v] : v \in TemplateInputs}
    \cup {NlAction(t) : t \in {"confirm_theme_venue", "confirm_invitees", "edit_invite_tone",
                               "confirm_send", "propose_more_times"}}

\* the if/elif chain of nl_command: the plans the edit can leave
nl_edit(plan, action) ==
    LET t == action.type
    IN  IF t = "change_theme" /\ action.theme # ""
        THEN {[plan EXCEPT !.theme = action.theme, !.stage = "review_theme_venue"]}
        ELSE IF t = "change_venue" /\ action.venue # ""
        THEN {[plan EXCEPT !.venue = action.venue, !.stage = "review_theme_venue"]}
        ELSE IF t = "confirm_theme_venue"
        THEN {[plan EXCEPT !.stage = "theme_venue_confirmed"]}
        ELSE IF t = "choose_time" /\ ~Falsy(action.time)
        THEN {[plan EXCEPT !.time = action.time]}
        ELSE IF t = "change_date" /\ ~Falsy(action.event_date)
        THEN {[plan EXCEPT !.date = action.event_date, !.availability = NoSeq,
                           !.time_options = NoSeq, !.time = NoTime]}
        ELSE IF t = "adjust_budget" /\ BudgetTruthy(action.budget)
        THEN {[plan EXCEPT !.budget = _normalize_budget(action.budget)]}
        ELSE IF t = "add_invitees"
        THEN {[plan EXCEPT !.invitees = AppendNew(@, action.emails)]}
        ELSE IF t = "remove_invitees"
        THEN {[plan EXCEPT !.invitees = SelectSeqBy(@, Range(action.emails))]}
        ELSE IF t = "confirm_invitees"
        THEN {[plan EXCEPT !.stage = "invitees_confirmed"]}
        ELSE IF t = "edit_invite_tone"
        THEN LET current == IF plan.invite_message_template # ""
                            THEN plan.invite_message_template ELSE ToneDefaultTemplate
             IN  {[plan EXCEPT !.invite_message_template = revised,
                               !.invite_preview =
                                   render_invite_preview(revised)]
                  : revised \in rewrite_invite_template(current)}
        ELSE IF t = "edit_invite_text" /\ action.template # ""
        THEN {[plan EXCEPT !.invite_message_template = action.template,
                           !.invite_preview =
                               render_invite_preview(action.template)]}
        ELSE IF t = "confirm_send"
        THEN {[plan EXCEPT !.stage = "ready_to_send"]}
        ELSE {plan}

\* whether a branch of the chain takes the action (it sets a summary);
\* otherwise the response says "No changes."
nl_applies(plan, action) ==
    LET t == action.type
    IN  \/ t = "change_theme" /\ action.theme # ""
        \/ t = "change_venue" /\ action.venue # ""
        \/ t = "choose_time" /\ ~Falsy(action.time)
        \/ t = "change_date" /\ ~Falsy(action.event_date)
        \/ t = "adjust_budget" /\ BudgetTruthy(action.budget)
        \/ t = "add_invitees" /\ action.emails # <<>>
        \/ t = "remove_invitees" /\ action.emails # <<>> /\ plan.invitees # <<>>
        \/ t = "edit_invite_text" /\ action.template # ""
        \/ t \in {"confirm_theme_venue", "confirm_invitees", "edit_invite_tone", "confirm_send"}

\* nl_command on a thread that has a plan, target "birthday": edit, re-invoke
\* the graph, persist (the start branch needs a missing plan or the type
\* start_birthday_plan, which NlActions does not contain)
nl_command ==
    \E thread_id \in ThreadIds :
        /\ HasPlan(thread_id)
        /\ \E action \in NlActions :
               LET plan == _get_persisted_plan(thread_id)
               IN  \E edited \in nl_edit(plan, action) :
                       _advance_graph(
                              IF nl_applies(plan, action) THEN action.type ELSE "no_change",
                              thread_id, edited, action)

(* ---------------------------- timeline endpoints ----------------------- *)

\* plans as confirm_send hands them to the pipeline: stage ready_to_send,
\* venue, time and invitees set
ReadyVenues == {"Home - Backyard dinner", "HOME sweet home", "Trendy lounge"}
ReadyTimes == {NoTime, HHMM(18,30)}
ReadyInvitees == {<<"a@x.com">>, <<"a@x.com", "b@x.com">>}

StartedPlan ==
    GraphBeforeSend(EmptyPlan, DEMO_PROFILES["sarah_tech"],
                    [event_date |-> Today + 30, spouse_name |-> "Michael Chen",
                     has_budget |-> TRUE, budget |-> 10000])

ReadyPlans ==
    {[StartedPlan EXCEPT !.venue = venue, !.time = time, !.invitees = invitees,
                         !.invite_message_template = DefaultTemplate,
                         !.invite_preview = ReplaceName(DefaultTemplate),
                         !.stage = "ready_to_send"] :
        venue \in ReadyVenues, time \in ReadyTimes, invitees \in ReadyInvitees}

\* virtual-clock instants of a tick request, in minutes: before every task,
\* exactly at decide_menu of an 18:30 event, exactly at wifi_access of a
\* 19:00 event, after every task
NowInputs ==
    {Today * 1440, (Today + 27) * 1440 + HHMM(18,30),
     (Today + 30) * 1440 + HHMM(17,0), (Today + 31) * 1440}

\* step budgets of a tick request: the small ones, and the default of
\* SimTickRequest
MaxStepsInputs == (0..MaxStepBudget) \cup {10}

\* the Send stage applied to a persisted plan that is at ready_to_send
send_stage ==
    \E thread_id \in ThreadIds :
        /\ HasPlan(thread_id)
        /\ _get_persisted_plan(thread_id).stage = "ready_to_send"
        /\ \E plan \in {_get_persisted_plan(thread_id)} :
               /\ PLAN_STORE' = [PLAN_STORE EXCEPT ![thread_id] = node_send_invites(plan)]
               /\ last' = Request("send_stage", thread_id, NoArg, plan, plan)
               /\ UNCHANGED inflight

\* what the history variable keeps of a tick: the request and the response
TickRecord(thread_id, now, maxSteps, processed, remaining) ==
    [type |-> "tick", pre_stage |-> PLAN_STORE[thread_id].stage,
     emails |-> <<>>, event_date |-> NoDate, budget |-> 0, noop |-> FALSE,
     send_in |-> NoPlan, thread_id |-> thread_id, invalid |-> FALSE,
     now |-> now, maxSteps |-> maxSteps,
     processed |-> processed, remaining |-> remaining]

\* the plan is written under every thread that holds one
Persist_all_threads(store, thread_id, plan) ==
    [t \in DOMAIN store |-> IF t = thread_id \/ store[t] # NoPlan THEN plan ELSE store[t]]

\* PLAN_STORE[req.thread_id] = plan
Persist(store, thread_id, plan) == [store EXCEPT ![thread_id] = plan]

\* plans a client holds and saves: a plan the Send stage produced, for a home
\* venue or for the lounge
SavedPlans ==
    {node_send_invites(plan) :
        plan \in {ready \in ReadyPlans : /\ ready.time = NoTime
                                         /\ ready.invitees = <<"a@x.com">>
                                         /\ ready.venue # "HOME sweet home"}}

\* save_nl_plan: the payload's plan replaces whatever the thread holds
save_nl_plan ==
    \E thread_id \in ThreadIds, plan \in SavedPlans :
        /\ PLAN_STORE' = [PLAN_STORE EXCEPT ![thread_id] = plan]
        /\ last' = Request("save_plan", thread_id, NoArg, plan, NoPlan)
        /\ UNCHANGED inflight

\* tick_timeline (birthday_timeline_tick delegates to it)
tick_timeline ==
    \E thread_id \in ThreadIds :
        /\ HasPlan(thread_id)
        /\ \E now \in NowInputs, maxSteps \in MaxStepsInputs :
               \E ticked \in {TickLoop(_get_persisted_plan(thread_id), 1, now, maxSteps, <<>>)} :
                   /\ PLAN_STORE' = Persist(PLAN_STORE, thread_id, ticked.plan)
                   /\ last' = TickRecord(thread_id, now, maxSteps, ticked.processed,
                                         Remaining(ticked.plan.ops_timeline))
                   /\ UNCHANGED inflight

Next ==
    \/ birthday_start
    \/ birthday_update_theme
    \/ birthday_update_venue
    \/ birthday_update_date
    \/ birthday_update_time
    \/ birthday_update_budget
    \/ birthday_put_invitees
    \/ birthday_add_invitees
    \/ birthday_remove_invitees
    \/ birthday_confirm_invitees
    \/ birthday_invites_tone
    \/ birthday_invites_text
    \/ birthday_invites_ready
    \/ birthday_invites_send
    \/ nl_command

Spec == Init /\ [][Next]_vars

\* birthday_start whenever it is called: the thread id is the profile id and
\* the clock's second at the call (birthday_task builds it the same way); the
\* clock does not run backwards, and it may show the second of an earlier
\* call
start_plan ==
    \E pid \in ProfileIds, ts \in {Today, Today + 1}, spouse_name \in SpouseInputs,
       event_date \in StartDateInputs, budget \in BudgetInputs :
        /\ \A t \in ThreadIds : HasPlan(t) => t.ts <= ts
        /\ LET profile == DEMO_PROFILES[pid]
               thread_id == [profile_id |-> pid, ts |-> ts]
               spouse == IF spouse_name # "" THEN spouse_name
                         ELSE IF _derive_spouse_name(profile) # ""
                              THEN _derive_spouse_name(profile) ELSE "Spouse"
               params == [event_date |-> event_date, spouse_name |-> spouse,
                          has_budget |-> TRUE, budget |-> _normalize_budget(budget)]
           IN  \E send_in \in {GraphBeforeSend(EmptyPlan, profile, params)} :
                   /\ PLAN_STORE' = Persist(PLAN_STORE, thread_id, node_send_invites(send_in))
                   /\ last' = Request("start", thread_id, NoArg, EmptyPlan, send_in)
                   /\ UNCHANGED inflight

\* plans are started at any moment, and their time and invitees edited
StartNext ==
    \/ start_plan
    \/ birthday_update_time
    \/ birthday_add_invitees

StartSpec == Init /\ [][StartNext]_vars

\* the scheduler's specification: the store holds one plan at ready_to_send;
\* the Send stage, ticks and edit actions follow
OpsInit ==
    /\ \E plan \in ReadyPlans :
           PLAN_STORE = [t \in ThreadIds |-> IF t.ts = Today THEN plan ELSE NoPlan]
    /\ last = [type |-> "none", pre_stage |-> "none", emails |-> <<>>, event_date |-> NoDate,
               budget |-> 0, noop |-> FALSE, send_in |-> NoPlan]
    /\ inflight = Idle

OpsNext ==
    \/ send_stage
    \/ tick_timeline
    \/ birthday_update_theme
    \/ birthday_update_venue
    \/ birthday_update_date
    \/ birthday_update_time
    \/ birthday_confirm_invitees
    \/ birthday_invites_ready
    \/ birthday_invites_send

OpsSpec == OpsInit /\ [][OpsNext]_vars

\* a tick whose now is at or after every task's scheduledAt and whose step
\* budget is at least one
LateTick(thread_id, now, maxSteps) ==
    /\ maxSteps >= 1
    /\ \A i \in 1..Len(PLAN_STORE[thread_id].ops_timeline) :
           PLAN_STORE[thread_id].ops_timeline[i].scheduledAt <= now

late_tick ==
    \E thread_id \in ThreadIds :
        /\ HasPlan(thread_id)
        /\ \E now \in NowInputs, maxSteps \in MaxStepsInputs :
               /\ LateTick(thread_id, now, maxSteps)
               /\ \E ticked \in {TickLoop(_get_persisted_plan(thread_id), 1, now, maxSteps, <<>>)} :
                      /\ PLAN_STORE' = Persist(PLAN_STORE, thread_id, ticked.plan)
                      /\ last' = TickRecord(thread_id, now, maxSteps, ticked.processed,
                                            Remaining(ticked.plan.ops_timeline))
                      /\ UNCHANGED inflight

\* the scheduler with a caller that keeps sending late ticks, among ticks of
\* any kind and changes of date and time
LiveNext ==
    \/ send_stage
    \/ tick_timeline
    \/ birthday_update_date
    \/ birthday_update_time

LiveSpec == OpsInit /\ [][LiveNext]_vars /\ WF_vars(late_tick)

\* several threads side by side: clients save plans under both thread ids,
\* tick them and edit their theme
(* ---------------------------- unknown threads -------------------------- *)

\* the requests that look the plan up first: GET of a plan or timeline, a
\* tick, and the REST edit actions
LookupTypes ==
    {"get_plan", "get_timeline", "tick",
     "change_theme", "change_venue", "change_date", "choose_time", "adjust_budget",
     "put_invitees", "add_invitees", "remove_invitees", "confirm_invitees",
     "edit_invite_tone", "edit_invite_text", "confirm_send"}

\* an empty plan is put under the thread id
NotFound_creates_plan(store, thread_id) == [store EXCEPT ![thread_id] = EmptyPlan]

\* raise HTTPException(404, ...): nothing is written
NotFound(store, thread_id) == store

\* what the history variable keeps of a request on a thread without plan
LookupRecord(type, requested, channel, thread_id) ==
    [type |-> type, pre_stage |-> PLAN_STORE[thread_id].stage,
     emails |-> <<>>, event_date |-> NoDate, budget |-> 0, noop |-> FALSE,
     send_in |-> NoPlan, thread_id |-> thread_id, invalid |-> FALSE,
     requested |-> requested, channel |-> channel]

\* _ensure_plan, get_nl_plan, get_timeline_status and tick_timeline when
\* _get_persisted_plan finds nothing
not_found ==
    \E thread_id \in ThreadIds, type \in LookupTypes :
        /\ ~HasPlan(thread_id)
        /\ PLAN_STORE' = NotFound(PLAN_STORE, thread_id)
        /\ last' = LookupRecord("not_found", type, "rest", thread_id)
        /\ UNCHANGED inflight

\* nl_command, target "birthday", on a thread without plan: "not plan"
\* starts one (no profile has a birthday within the horizon, so the honoree
\* is the derived spouse), the edit chain runs on it, the graph is invoked
\* again and the result is persisted
nl_command_new_thread ==
    \E thread_id \in ThreadIds :
        /\ ~HasPlan(thread_id)
        /\ \E action \in NlActions :
               LET profile == DEMO_PROFILES[thread_id.profile_id]
                   spouse == IF _derive_spouse_name(profile) # ""
                             THEN _derive_spouse_name(profile) ELSE "Spouse"
                   params == [event_date |-> IF Falsy(action.event_date) THEN NoDate
                                             ELSE action.event_date,
                              spouse_name |-> spouse, has_budget |-> TRUE,
                              budget |-> IF action.budget = NoBudget THEN 10000
                                         ELSE _normalize_budget(action.budget)]
               IN  \E started \in {BIRTHDAY_GRAPH(EmptyPlan, profile, params)} :
                       \E edited \in nl_edit(started, action) :
                           /\ PLAN_STORE' = [PLAN_STORE EXCEPT ![thread_id] =
                                  BIRTHDAY_GRAPH(edited, profile, EmptyParams)]
                           /\ last' = LookupRecord(
                                  IF nl_applies(started, action) THEN action.type
                                  ELSE "no_change",
                                  action.type, "nl", thread_id)
                           /\ UNCHANGED inflight

ThreadsNext ==
    \/ save_nl_plan
    \/ tick_timeline
    \/ birthday_update_theme
    \/ not_found
    \/ nl_command_new_thread

ThreadsSpec == Init /\ [][ThreadsNext]_vars

(* ---------------------------- concurrent requests ---------------------- *)

\* The endpoints are plain functions, which the server runs on worker
\* threads: the steps of two requests interleave, and nothing in main.py
\* locks PLAN_STORE or a plan. The persisted plan is a dict that handlers
\* mutate in place; the pipeline works on a copy of it, which replaces the
\* persisted dict when _advance_graph stores it.

\* the themes of the concurrent edit
ConcThemes == ThemeInputs \ {""}

\* the nodes copy the plan with dict(...), which shares the task dicts and
\* an existing ops dict with the persisted plan; the graph runtime between
\* the nodes may hand over the state as it is or as a deep copy
CopyModes == {"shallow", "deep"}

\* birthday_update_theme up to the call of _advance_graph: _ensure_plan
\* returns the persisted dict, and theme and stage are written into it
theme_begin ==
    \E thread_id \in ThreadIds, theme \in ConcThemes :
        /\ inflight.theme.pc = "idle"
        /\ HasPlan(thread_id)
        /\ PLAN_STORE' = [PLAN_STORE EXCEPT ![thread_id] =
                             [@ EXCEPT !.theme = theme, !.stage = "review_theme_venue"]]
        /\ inflight' = [inflight EXCEPT !.theme =
                           [pc |-> "read", thread_id |-> thread_id, theme |-> theme,
                            plan |-> NoPlan, copy |-> "shallow"]]
        /\ UNCHANGED last

\* BIRTHDAY_GRAPH.invoke inside _advance_graph: the pipeline result is a new
\* dict, made from the persisted plan as it is at this moment
theme_run ==
    /\ inflight.theme.pc = "read"
    /\ \E copy \in CopyModes :
           inflight' = [inflight EXCEPT
               !.theme.pc = "ran",
               !.theme.copy = copy,
               !.theme.plan = BIRTHDAY_GRAPH(PLAN_STORE[inflight.theme.thread_id],
                                  DEMO_PROFILES[inflight.theme.thread_id.profile_id],
                                  EmptyParams)]
    /\ UNCHANGED <<PLAN_STORE, last>>

\* PLAN_STORE[thread_id] = plan at the end of _advance_graph; a tick that
\* read the plan before keeps the dict that was persisted until now
theme_commit ==
    /\ inflight.theme.pc = "ran"
    /\ LET thread_id == inflight.theme.thread_id
       IN  /\ PLAN_STORE' = [PLAN_STORE EXCEPT ![thread_id] = inflight.theme.plan]
           /\ inflight' = [inflight EXCEPT
                  !.theme.pc = "done",
                  !.tick = IF inflight.tick.pc = "read"
                           THEN [@ EXCEPT !.holds = "detached", !.plan = PLAN_STORE[thread_id]]
                           ELSE @]
           /\ last' = Request("change_theme", thread_id, [theme |-> inflight.theme.theme],
                              inflight.theme.plan, NoPlan)

\* tick_timeline up to its loop: plan is the persisted dict
tick_begin ==
    \E thread_id \in ThreadIds, now \in NowInputs, maxSteps \in MaxStepsInputs :
        /\ inflight.tick.pc = "idle"
        /\ HasPlan(thread_id)
        /\ inflight' = [inflight EXCEPT !.tick =
                           [pc |-> "read", thread_id |-> thread_id, now |-> now,
                            maxSteps |-> maxSteps, holds |-> "stored", plan |-> NoPlan,
                            processed |-> <<>>]]
        /\ UNCHANGED <<PLAN_STORE, last>>

\* what a tick on the persisted dict leaves in the pipeline's unsaved copy:
\* a shallow copy shares the task dicts, and the ops dict if the plan had one
\* when it was copied; a deep copy shares nothing
SharedWithCopy(copied, copy, before, after) ==
    IF copy = "shallow"
    THEN [copied EXCEPT !.ops_timeline = after.ops_timeline,
                        !.ops = IF before.ops # <<>> THEN after.ops ELSE @]
    ELSE copied

\* the loop of tick_timeline on the dict the tick holds, and
\* PLAN_STORE[req.thread_id] = plan
tick_finish ==
    /\ inflight.tick.pc = "read"
    /\ LET thread_id == inflight.tick.thread_id
           before == IF inflight.tick.holds = "stored"
                     THEN PLAN_STORE[thread_id] ELSE inflight.tick.plan
       IN  \E ticked \in {TickLoop(before, 1, inflight.tick.now, inflight.tick.maxSteps, <<>>)} :
               /\ PLAN_STORE' = Persist(PLAN_STORE, thread_id, ticked.plan)
               /\ inflight' = [inflight EXCEPT
                      !.tick.pc = "done",
                      !.tick.processed = ticked.processed,
                      !.theme = IF inflight.theme.pc = "ran"
                                THEN [@ EXCEPT !.plan = SharedWithCopy(@, inflight.theme.copy,
                                                                       before, ticked.plan)]
                                ELSE @]
               /\ last' = TickRecord(thread_id, inflight.tick.now, inflight.tick.maxSteps,
                                     ticked.processed, Remaining(ticked.plan.ops_timeline))

\* a tick that no other request overlaps
tick_alone ==
    /\ inflight = Idle
    /\ tick_timeline

\* the store holds a plan the Send stage produced
ConcInit ==
    /\ \E plan \in ReadyPlans :
           PLAN_STORE = [t \in ThreadIds |->
                            IF t.ts = Today THEN node_send_invites(plan) ELSE NoPlan]
    /\ last = [type |-> "none", pre_stage |-> "none", emails |-> <<>>, event_date |-> NoDate,
               budget |-> 0, noop |-> FALSE, send_in |-> NoPlan]
    /\ inflight = Idle

ConcNext ==
    \/ tick_alone
    \/ theme_begin
    \/ theme_run
    \/ theme_commit
    \/ tick_begin
    \/ tick_finish

ConcSpec == ConcInit /\ [][ConcNext]_vars

(* ---------------------------- properties ------------------------------- *)

\* forward order of the stages
StageRank(stage) ==
    CASE stage = "review_theme_venue" -> 1
      [] stage = "theme_venue_confirmed" -> 2
      [] stage = "pick_time" -> 3
      [] stage = "select_invitees" -> 4
      [] stage = "review_invite" -> 5
      [] stage = "ready_to_send" -> 6
      [] stage = "sent" -> 7
      [] OTHER -> 0

EditTypes ==
    {"change_theme", "change_venue", "confirm_theme_venue", "choose_time", "change_date",
     "adjust_budget", "add_invitees", "remove_invitees", "put_invitees", "confirm_invitees",
     "edit_invite_tone", "edit_invite_text", "confirm_send", "no_change"}
\* ---------------------------------------------------------------------------
\* Budget ingestion: the values a budget field can carry, and the two
\* handlers that normalize one and run the graph on it (src/app/main.py)
\* ---------------------------------------------------------------------------

\* A word is the text after strip().lower(); a digit string is read by int().
NormalizeInputs ==
    {IntBudget(n) : n \in {0, 75, 5000, 25000}}
        \cup {WordBudget(w) : w \in {"low", "small", "budget", "medium", "med", "mid",
                                     "high", "large", "premium", "lots", ""}}
        \cup {DigitsBudget(<<7, 5>>), DigitsBudget(<<0, 3, 0>>), NoBudget}

\* the raw value of the request, the value the handler handed on, the thread
BudgetRecord(type, thread_id, val, normalized) ==
    [type |-> type, thread_id |-> thread_id, val |-> val, normalized |-> normalized]

BudgetInit ==
    /\ PLAN_STORE = [t \in ThreadIds |-> NoPlan]
    /\ inflight = Idle
    /\ \E val \in NormalizeInputs, spouse_name \in SpouseInputs,
          event_date \in StartDateInputs :
           last = [type |-> "budget_request", val |-> val, spouse_name |-> spouse_name,
                   event_date |-> event_date]

\* birthday_start with the budget of the request
start_with_budget ==
    /\ last.type = "budget_request"
    /\ \A t \in ThreadIds : ~HasPlan(t)
    /\ \E pid \in ProfileIds :
        LET profile == DEMO_PROFILES[pid]
            thread_id == [profile_id |-> pid, ts |-> Today]
            spouse == IF last.spouse_name # "" THEN last.spouse_name
                      ELSE IF _derive_spouse_name(profile) # ""
                           THEN _derive_spouse_name(profile) ELSE "Spouse"
            params == [event_date |-> last.event_date, spouse_name |-> spouse,
                       has_budget |-> TRUE, budget |-> _normalize_budget(last.val)]
        IN  /\ PLAN_STORE' = [PLAN_STORE EXCEPT
                                 ![thread_id] = BIRTHDAY_GRAPH(EmptyPlan, profile, params)]
            /\ last' = BudgetRecord("start", thread_id, last.val, params.budget)
            /\ UNCHANGED inflight

\* birthday_update_budget with any budget value
update_with_budget ==
    \E thread_id \in ThreadIds, val \in NormalizeInputs :
        /\ HasPlan(thread_id)
        /\ LET plan == [_ensure_plan(thread_id) EXCEPT !.budget = _normalize_budget(val)]
           IN /\ PLAN_STORE' = [PLAN_STORE EXCEPT
                                   ![thread_id] = BIRTHDAY_GRAPH(plan,
                                                      DEMO_PROFILES[thread_id.profile_id],
                                                      EmptyParams)]
              /\ last' = BudgetRecord("adjust_budget", thread_id, val, plan.budget)
              /\ UNCHANGED inflight

BudgetNext == start_with_budget \/ update_with_budget

BudgetSpec == BudgetInit /\ [][BudgetNext]_vars

\* ---------------------------------------------------------------------------
\* Day planning: clock texts, DayContext and the agent router
\* (src/app/graphs/supervisor.py)
\* ---------------------------------------------------------------------------

\* A clock text is the sequence of its characters, each character a code that
\* keeps the order of the character set: digits 0..9, then ':', then letters.
Colon == 10

\* The clock texts of the code and of the calendars: none is the empty text,
\* t800 and t900 the texts "8:00" and "9:00", bad a text of three letters.
Clock ==
    [none |-> <<>>,
     t0600 |-> <<0, 6, Colon, 0, 0>>, t0730 |-> <<0, 7, Colon, 3, 0>>,
     t0800 |-> <<0, 8, Colon, 0, 0>>, t0900 |-> <<0, 9, Colon, 0, 0>>,
     t1130 |-> <<1, 1, Colon, 3, 0>>, t1200 |-> <<1, 2, Colon, 0, 0>>,
     t1400 |-> <<1, 4, Colon, 0, 0>>,
     t1830 |-> <<1, 8, Colon, 3, 0>>, t1900 |-> <<1, 9, Colon, 0, 0>>,
     t2030 |-> <<2, 0, Colon, 3, 0>>, t2100 |-> <<2, 1, Colon, 0, 0>>,
     t2230 |-> <<2, 2, Colon, 3, 0>>,
     t800 |-> <<8, Colon, 0, 0>>, t900 |-> <<9, Colon, 0, 0>>, bad |-> <<11, 11, 11>>,
     t1800 |-> <<1, 8, Colon, 0, 0>>, t2000 |-> <<2, 0, Colon, 0, 0>>,
     t100 |-> <<1, Colon, 0, 0>>]

\* Python's order on strings: the first differing character decides, a proper
\* prefix is smaller.
StrLess(a, b) ==
    \E k \in 1..(Len(b)) :
        /\ k <= Len(a) + 1
        /\ \A j \in 1..(k - 1) : a[j] = b[j]
        /\ (k <= Len(a) => a[k] < b[k])

StrLessEq(a, b) == a = b \/ StrLess(a, b)

\* _parse_time and _to_minutes: "H:M" split on the colon, both parts read as
\* integers; any text that does not split into two integers reads as 0:00.
_to_minutes(t) ==
    LET colons == {i \in 1..Len(t) : t[i] = Colon} IN
    IF Cardinality(colons) # 1 THEN 0
    ELSE LET c == CHOOSE i \in colons : TRUE
             h == SubSeq(t, 1, c - 1)
             m == SubSeq(t, c + 1, Len(t))
             IsInt(s) == Len(s) > 0 /\ \A i \in 1..Len(s) : s[i] \in 0..9
         IN IF IsInt(h) /\ IsInt(m) THEN ParseInt(h) * 60 + ParseInt(m) ELSE 0

Max(a, b) == IF a > b THEN a ELSE b

\* list.remove(x): drops the first occurrence of x.
PyRemove(s, x) ==
    LET i == CHOOSE k \in 1..Len(s) : s[k] = x /\ \A j \in 1..(k - 1) : s[j] # x
    IN SubSeq(s, 1, i - 1) \o SubSeq(s, i + 1, Len(s))

\* list.insert(i, x) with a 0-based index: a negative index counts from the
\* end, and the index is clamped to the list.
PyInsert(s, i, x) ==
    LET n == Len(s)
        k == IF i < 0 THEN Max(0, n + i) ELSE IF i > n THEN n ELSE i
    IN SubSeq(s, 1, k) \o <<x>> \o SubSeq(s, k + 1, n)

MoveTo_front(s, x, i) == IF x \in Range(s) THEN PyInsert(PyRemove(s, x), 0, x) ELSE s

\* "if name in seq: seq.remove(name); seq.insert(index, name)", the index
\* computed on the list after the removal.
MoveTo(s, x, i) == IF x \in Range(s) THEN PyInsert(PyRemove(s, x), i, x) ELSE s

\* "if name in seq: seq.remove(name); seq.insert(len(seq) - back, name)".
\* the name is put at the very end
MoveFromEnd_append(s, x, back) ==
    IF x \in Range(s) THEN Append(PyRemove(s, x), x) ELSE s

MoveFromEnd(s, x, back) ==
    IF x \in Range(s)
    THEN LET r == PyRemove(s, x) IN PyInsert(r, Len(r) - back, x)
    ELSE s

NODE_FUN ==
    {"getting_started", "traffic", "work_life", "fitness", "hobby", "life_after_work",
     "relaxation", "nutrition", "finance_errands", "learning", "celebrations"}

\* Roles as the router reads them: the lower-cased role text either names an
\* executive, a GenZ profile, or anything else (a missing role included).
RoleInputs == {"Chief Executive", "GenZ Creator", "Software Engineer", ""}

RoleKind(role) ==
    CASE role = "Chief Executive" -> "exec"
      [] role = "GenZ Creator" -> "genz"
      [] OTHER -> "other"

base == <<"getting_started", "celebrations">>

RoleSequence(role, night) ==
    CASE RoleKind(role) = "exec" ->
            base \o <<"work_life", "traffic", "nutrition", "learning", "fitness",
                      "finance_errands", "hobby", "life_after_work", "relaxation">>
      [] RoleKind(role) = "genz" ->
            base \o (IF night THEN <<"hobby">> ELSE <<>>)
                 \o <<"traffic", "work_life", "nutrition", "learning", "fitness",
                      "finance_errands", "life_after_work", "relaxation">>
      [] OTHER ->
            base \o (IF ~night THEN <<"traffic", "work_life">> ELSE <<"work_life", "traffic">>)
                 \o <<"nutrition", "learning", "hobby", "life_after_work", "fitness",
                      "finance_errands", "relaxation">>

\* the weekend is routed like a weekday
WeekendRule_skipped(seq, is_weekend) == seq

WeekendRule(seq, is_weekend) ==
    IF ~is_weekend THEN seq
    ELSE LET s1 == MoveTo(seq, "hobby", 2)
             s2 == MoveTo(s1, "learning", 2)
             s3 == MoveTo(s2, "finance_errands", 2)
             s4 == MoveTo(s3, "life_after_work", 2)
             s5 == MoveFromEnd(s4, "work_life", 1)
         IN MoveFromEnd(s5, "traffic", 2)

\* only the heavy half of the rule
LoadRule_heavy_only(seq, load, night) ==
    IF load = "heavy" THEN MoveFromEnd(seq, "hobby", 1) ELSE seq

LoadRule(seq, load, night) ==
    LET s1 == IF load = "light" THEN MoveTo(seq, "fitness", IF ~night THEN 2 ELSE 3) ELSE seq
    IN IF load = "heavy" THEN MoveFromEnd(s1, "hobby", 1) ELSE s1

evening_engagement(ctx) ==
    \/ StrLessEq(Clock.t1900, ctx.last_event_time)
    \/ ctx.event_types.party + ctx.event_types.family > 0

EveningRule(seq, ctx) ==
    IF "life_after_work" \notin Range(seq) THEN seq
    ELSE LET s == PyRemove(seq, "life_after_work") IN
         IF evening_engagement(ctx)
         THEN LET idx == IF "learning" \in Range(s)
                         THEN (CHOOSE k \in 1..Len(s) : s[k] = "learning") ELSE 3
              IN PyInsert(s, IF idx < Len(s) - 1 THEN idx ELSE Len(s) - 1, "life_after_work")
         ELSE IF ctx.meeting_density >= 100 \/ ctx.day_load = "heavy"
              THEN PyInsert(s, Len(s) - 1, "life_after_work")
              ELSE PyInsert(s, Len(s) - 1, "life_after_work")

\* The closing loop: keeps the first occurrence of every known name.
KnownOnce(seq) ==
    LET Kept(name) == name # "" IN
    SelectSeq([i \in 1..Len(seq) |->
                  IF seq[i] \in NODE_FUN /\ \A j \in 1..(i - 1) : seq[j] # seq[i]
                  THEN seq[i] ELSE "" ],
              Kept)

AfterWeekend(ctx) == WeekendRule(RoleSequence(ctx.role, ctx.night_owl), ctx.is_weekend)

AfterLoad(ctx) == LoadRule(AfterWeekend(ctx), ctx.day_load, ctx.night_owl)

router_order(ctx) == KnownOnce(EveningRule(AfterLoad(ctx), ctx))

\* Contexts: three loads; no last event, zero-padded texts around 19:00 and
\* the morning text "9:00"; densities in hundredths (the code rounds to two
\* decimals); party and family counts.
Contexts ==
    [role : RoleInputs, night_owl : BOOLEAN, is_weekend : BOOLEAN,
     day_load : {"light", "medium", "heavy"},
     last_event_time : {Clock.none, Clock.t0900, Clock.t900, Clock.t1830, Clock.t1900,
                        Clock.t2100},
     meeting_density : {0, 50, 100, 250},
     event_types : [party : 0..1, family : 0..1]]

RouteRecord(ctx) ==
    [type |-> "route", ctx |-> ctx, after_weekend |-> AfterWeekend(ctx),
     after_load |-> AfterLoad(ctx), order |-> router_order(ctx)]

\* The router is a pure function of the context: a run starts with one context
\* and the step routes it.
RouterInit ==
    /\ PLAN_STORE = [t \in ThreadIds |-> NoPlan]
    /\ inflight = Idle
    /\ \E ctx \in Contexts : last = [type |-> "route_request", ctx |-> ctx]

route ==
    /\ last.type = "route_request"
    /\ last' = RouteRecord(last.ctx)
    /\ UNCHANGED <<PLAN_STORE, inflight>>

RouterNext == route

RouterSpec == RouterInit /\ [][RouterNext]_vars

\* A calendar maps clock texts to titles (the profile's day is a dict keyed by
\* the time text, so the times of a calendar are distinct); the events of one
\* calendar share their title.
Calendars ==
    {[time \in times |-> title] :
        times \in SUBSET {Clock.t0730, Clock.t0900, Clock.t1130, Clock.t1400, Clock.t1830,
                          Clock.t1900, Clock.t2100, Clock.t800, Clock.t900, Clock.bad},
        title \in {"Design review meeting", "Family party"}}

RECURSIVE SortTexts(_)
SortTexts(texts) ==
    IF texts = {} THEN <<>>
    ELSE LET first == CHOOSE x \in texts : \A y \in texts : StrLessEq(x, y)
         IN <<first>> \o SortTexts(texts \ {first})

\* calendar_lookup followed by the sort on the time text.
SortedEvents(cal) ==
    LET order == SortTexts(DOMAIN cal)
    IN [i \in 1..Len(order) |-> [time |-> order[i], title |-> cal[order[i]]]]

FreeBlock_signed(start, end) ==
    [start |-> start, end |-> end, minutes |-> _to_minutes(end) - _to_minutes(start)]

FreeBlock(start, end) ==
    [start |-> start, end |-> end, minutes |-> Max(0, _to_minutes(end) - _to_minutes(start))]

FreeBlocks(events) ==
    LET n == Len(events)
        morning == IF n > 0 /\ StrLess(Clock.t0800, events[1].time)
                   THEN <<FreeBlock(Clock.t0600, events[1].time)>> ELSE <<>>
        gaps == [i \in 1..(IF n > 0 THEN n - 1 ELSE 0) |->
                    FreeBlock(events[i].time, events[i + 1].time)]
        evening == IF n > 0 /\ events[n].time # Clock.none /\ StrLess(events[n].time, Clock.t2030)
                   THEN <<FreeBlock(events[n].time, Clock.t2230)>> ELSE <<>>
    IN morning \o gaps \o evening

\* max([b.get("minutes", 0) for b in free_blocks] or [0])
RECURSIVE longest_block(_)
longest_block(free_blocks) ==
    IF Len(free_blocks) = 0 THEN 0
    ELSE Max(free_blocks[1].minutes, longest_block(Tail(free_blocks)))

\* The best block of the morning and of the afternoon among the blocks of at
\* least 45 minutes; list.sort is stable, so the first of several longest
\* blocks is taken. A window is the pair that _fmt_range joins with "-".
focus_windows(free_blocks) ==
    LET IsLong(b) == b.minutes >= 45
        IsMorning(b) == StrLessEq(b.start, Clock.t1200)
        IsAfternoon(b) == StrLess(Clock.t1200, b.start) /\ StrLessEq(b.start, Clock.t1830)
        long_blocks == SelectSeq(free_blocks, IsLong)
        morning == SelectSeq(long_blocks, IsMorning)
        afternoon == SelectSeq(long_blocks, IsAfternoon)
        Best(s) == s[CHOOSE i \in 1..Len(s) :
                        /\ \A j \in 1..Len(s) : s[j].minutes <= s[i].minutes
                        /\ \A j \in 1..(i - 1) : s[j].minutes < s[i].minutes]
        Window(b) == [window |-> <<b.start, b.end>>, minutes |-> b.minutes]
    IN  (IF Len(morning) > 0 THEN <<Window(Best(morning))>> ELSE <<>>)
            \o (IF Len(afternoon) > 0 THEN <<Window(Best(afternoon))>> ELSE <<>>)

day_load(count) == IF count <= 2 THEN "light" ELSE IF count <= 4 THEN "medium" ELSE "heavy"

\* Keyword hits of the titles of Calendars: "party" and "family" are both in
\* "Family party", neither is in "Design review meeting".
type_counts(events) ==
    LET hits == Cardinality({i \in 1..Len(events) : events[i].title = "Family party"})
    IN [party |-> hits, family |-> hits]

\* Events per hour of calendar span, in hundredths, rounded to the nearest.
meeting_density(events) ==
    LET count == Len(events)
        diff == IF count > 0
                THEN _to_minutes(events[count].time) - _to_minutes(events[1].time) ELSE 0
        span_min == IF count > 0 THEN Max(1, diff) ELSE 480
    IN (count * 6000 * 2 + span_min) \div (2 * span_min)

\* Dates are day numbers; day 100 is a Monday, so day 105 is a Saturday and
\* day 106 a Sunday. A date text that does not parse gives is_weekend false.
is_weekend(date) == date # BadDate /\ (date % 7) \in {0, 1}

compute_day_context(meta, cal, date) ==
    LET events == SortedEvents(cal)
        free_blocks == FreeBlocks(events)
    IN [events |-> events,
        event_count |-> Len(events),
        last_event_time |-> IF Len(events) > 0 THEN events[Len(events)].time ELSE Clock.none,
        free_blocks |-> free_blocks,
        longest_block |-> longest_block(free_blocks),
        focus_windows |-> focus_windows(free_blocks),
        day_load |-> day_load(Len(events)),
        meeting_density |-> meeting_density(events),
        night_owl |-> meta.night_owl,
        role |-> meta.role,
        is_weekend |-> is_weekend(date),
        event_types |-> type_counts(events)]

PlanResponse(req) ==
    LET ctx == compute_day_context(req.meta, req.cal, req.date)
    IN [type |-> "plan_day", cal |-> req.cal, ctx |-> ctx, order |-> router_order(ctx)]

\* A day-planning request computes the context of one profile's calendar and
\* routes it; nothing of it is persisted.
DayInit ==
    /\ PLAN_STORE = [t \in ThreadIds |-> NoPlan]
    /\ inflight = Idle
    /\ \E meta \in [role : RoleInputs, night_owl : BOOLEAN], cal \in Calendars,
          date \in {Today, Today + 5, BadDate} :
           last = [type |-> "plan_request", meta |-> meta, cal |-> cal, date |-> date]

plan_day ==
    /\ last.type = "plan_request"
    /\ last' = PlanResponse(last)
    /\ UNCHANGED <<PLAN_STORE, inflight>>

DayNext == plan_day

DaySpec == DayInit /\ [][DayNext]_vars

\* ---------------------------------------------------------------------------
\* Time options of a birthday plan on the clock texts of the calendar
\* (src/app/graphs/birthday.py, _suggest_times and node_calendar)
\* ---------------------------------------------------------------------------

\* The window test "18:00" <= t <= "21:00" as the code has it, on the texts.
WindowByText(availability) ==
    [t \in Range(availability) |-> StrLessEq(Clock.t1800, t) /\ StrLessEq(t, Clock.t2100)]

\* The calendars of the profile's first day: any set of these clock texts.
TimeCalendars ==
    {[time \in times |-> "Design review meeting"] :
        times \in SUBSET {Clock.t0730, Clock.t0900, Clock.t1400, Clock.t1800, Clock.t1830,
                          Clock.t2000, Clock.t2100, Clock.t2230, Clock.t100}}

\* The calendars the profile is replaced by before a change of date.
NewCalendars ==
    {[time \in times |-> "Design review meeting"] :
        times \in {{}, {Clock.t0730, Clock.t0900, Clock.t1400, Clock.t2230},
                   {Clock.t0900, Clock.t1830, Clock.t2000}, {Clock.t0730, Clock.t100}}}

\* node_calendar on the scheduling fields: the availability is the first five
\* events of calendar_lookup, the time options are set when the plan has none
\* (has_options tells whether the plan has the key).
node_calendar_times(plan, cal) ==
    LET events == SortedEvents(cal)
        avail == Take([i \in 1..Len(events) |-> events[i].time], 5)
    IN  [availability |-> avail,
         has_options |-> TRUE,
         time_options |-> IF plan.has_options THEN plan.time_options
                          ELSE _suggest_times(avail, WindowByText(avail))]

\* birthday_update_date: availability and time options are popped.
pop_scheduling(plan) == [availability |-> <<>>, has_options |-> FALSE, time_options |-> <<>>]

TimesInit ==
    /\ PLAN_STORE = <<>>
    /\ inflight = Idle
    /\ \E cal \in TimeCalendars, new_cal \in NewCalendars :
          last = [type |-> "times_request", cal |-> cal, new_cal |-> new_cal]

\* birthday_start: the graph runs node_calendar on a new plan.
start_times ==
    /\ last.type = "times_request"
    /\ last' = [type |-> "time_options", new_cal |-> last.new_cal, recomputed |-> FALSE,
                plan |-> node_calendar_times([availability |-> <<>>, has_options |-> FALSE,
                                              time_options |-> <<>>],
                                             last.cal)]
    /\ UNCHANGED <<PLAN_STORE, inflight>>

\* the graph runs again on the persisted plan: the options stay as they are.
rerun_times ==
    /\ last.type = "time_options"
    /\ last' = [last EXCEPT !.plan = node_calendar_times(last.plan, last.new_cal)]
    /\ UNCHANGED <<PLAN_STORE, inflight>>

\* change_date after the profile's calendar was replaced by new_cal.
update_date_times ==
    /\ last.type = "time_options"
    /\ ~last.recomputed
    /\ last' = [last EXCEPT !.recomputed = TRUE,
                            !.plan = node_calendar_times(pop_scheduling(last.plan),
                                                         last.new_cal)]
    /\ UNCHANGED <<PLAN_STORE, inflight>>

TimesNext == start_times \/ rerun_times \/ update_date_times

TimesSpec == TimesInit /\ [][TimesNext]_vars

NoDuplicates(s) == \A i, j \in 1..Len(s) : s[i] = s[j] => i = j

FirstIndex(s, x) == CHOOSE i \in 1..Len(s) : s[i] = x /\ \A j \in 1..(i - 1) : s[j] # x

\* C1: confirm_send applied to a plan at review_invite (theme/venue confirmed,
\* time chosen, invitees present) leaves the persisted plan at stage sent with
\* the messaging result stored
C1_ConfirmSendReachesSent ==
    \A t \in ThreadIds :
        (HasPlan(t) /\ last.type = "confirm_send" /\ last.pre_stage = "review_invite")
            => /\ PLAN_STORE[t].stage = "sent"
               /\ PLAN_STORE[t].invite_result # NoResult

\* C2: in every graph run the send node dispatches, stores the result and sets
\* stage sent only if the plan entered it at ready_to_send; a plan entering at
\* any other stage comes out unchanged
C2_SendOnlyWhenReady ==
    \A t \in ThreadIds :
        (HasPlan(t) /\ last.send_in # NoPlan)
            => /\ last.send_in.stage # "ready_to_send" => PLAN_STORE[t] = last.send_in
               /\ (\/ PLAN_STORE[t].stage = "sent"
                   \/ PLAN_STORE[t].invite_result # last.send_in.invite_result
                   \/ PLAN_STORE[t].ops_timeline # last.send_in.ops_timeline)
                      => last.send_in.stage = "ready_to_send"

\* C2 witness: after confirm_send on a plan at review_invite the send node
\* was entered at review_invite and returned the plan as it was
C2_Witness ==
    \E t \in ThreadIds :
        /\ HasPlan(t)
        /\ last.type = "confirm_send"
        /\ last.pre_stage = "review_invite"
        /\ last.send_in.stage = "review_invite"
        /\ PLAN_STORE[t] = last.send_in
        /\ PLAN_STORE[t].invite_result = NoResult

\* the stage an edit type may move backwards from: the claim's exceptions
C3_Excepted == {"change_date", "change_venue", "change_theme", "start"}

\* C3 as stated: for every action other than change_date, change_venue and
\* change_theme the stage persisted after the action is not earlier in the
\* stage order than the stage persisted before it
C3_StageNeverEarlier ==
    \A t \in ThreadIds :
        (HasPlan(t) /\ last.type \in EditTypes \ C3_Excepted)
            => StageRank(PLAN_STORE[t].stage) >= StageRank(last.pre_stage)

\* C3 amended: the same, also excepting an action that leaves the invitee
\* list empty (remove_invitees, put_invitees) or the time empty (choose_time)
C3_StageNeverEarlierUnlessEmptied ==
    \A t \in ThreadIds :
        (/\ HasPlan(t)
         /\ last.type \in EditTypes \ C3_Excepted
         /\ ~(last.type \in {"remove_invitees", "put_invitees"} /\ PLAN_STORE[t].invitees = <<>>)
         /\ ~(last.type = "choose_time" /\ Falsy(PLAN_STORE[t].time)))
            => StageRank(PLAN_STORE[t].stage) >= StageRank(last.pre_stage)

\* C3 witness: a remove_invitees on a plan at review_invite that leaves an
\* invitee keeps the plan at review_invite
C3_Witness ==
    \E t \in ThreadIds :
        /\ HasPlan(t)
        /\ last.type = "remove_invitees"
        /\ last.pre_stage = "review_invite"
        /\ ~last.noop
        /\ PLAN_STORE[t].invitees # <<>>
        /\ PLAN_STORE[t].stage = "review_invite"

\* C4: a plan at review_theme_venue is still at review_theme_venue after any
\* action other than confirm_theme_venue
C4_StaysInReviewUntilConfirmed ==
    \A t \in ThreadIds :
        (/\ HasPlan(t)
         /\ last.pre_stage = "review_theme_venue"
         /\ last.type \in EditTypes \ {"confirm_theme_venue"})
            => PLAN_STORE[t].stage = "review_theme_venue"

\* C5: an action whose own edit leaves the plan as it was (its effect is
\* already in place) leaves every field of the persisted plan as it was
C5_NoOpActionChangesNothing ==
    [][\A t \in ThreadIds :
          (HasPlan(t) /\ last'.type \in EditTypes \ {"no_change"} /\ last'.noop)
              => PLAN_STORE'[t] = PLAN_STORE[t]]_vars

\* C6: re-running the graph on a persisted plan with no edit leaves date,
\* budget, honoree, theme, venue, time, time options, invitees and stage as
\* they were
C6_RerunChangesNothing ==
    [][\A t \in ThreadIds :
          (HasPlan(t) /\ last'.type = "no_change")
              => LET old == PLAN_STORE[t]
                     new == PLAN_STORE'[t]
                 IN  /\ new.date = old.date
                     /\ new.budget = old.budget
                     /\ new.honoree_name = old.honoree_name
                     /\ new.theme = old.theme
                     /\ new.venue = old.venue
                     /\ new.time = old.time
                     /\ new.time_options = old.time_options
                     /\ new.invitees = old.invitees
                     /\ new.stage = old.stage]_vars

\* C7: after change_date with a date d the persisted plan's date is d
C7_ChangedDatePersisted ==
    \A t \in ThreadIds :
        (HasPlan(t) /\ last.type = "change_date" /\ last.event_date > 0)
            => PLAN_STORE[t].date = last.event_date

\* C8: after adjust_budget(b) the persisted plan's budget is normalize(b)
C8_AdjustedBudgetPersisted ==
    \A t \in ThreadIds :
        (HasPlan(t) /\ last.type = "adjust_budget")
            => PLAN_STORE[t].budget = last.budget

\* C9: after change_date on a plan past review_theme_venue the plan is at
\* pick_time with no time set, and availability and time options are present
C9_ChangeDateBackToPickTime ==
    \A t \in ThreadIds :
        (/\ HasPlan(t)
         /\ last.type = "change_date"
         /\ StageRank(last.pre_stage) > StageRank("review_theme_venue"))
            => /\ PLAN_STORE[t].stage = "pick_time"
               /\ PLAN_STORE[t].time = NoTime
               /\ PLAN_STORE[t].availability # NoSeq
               /\ PLAN_STORE[t].time_options # NoSeq

\* C9 witness: a change_date on a plan at review_invite left it at pick_time
\* with its invitees and no time
C9_Witness ==
    \E t \in ThreadIds :
        /\ HasPlan(t)
        /\ last.type = "change_date"
        /\ last.pre_stage = "review_invite"
        /\ PLAN_STORE[t].stage = "pick_time"
        /\ PLAN_STORE[t].time = NoTime
        /\ PLAN_STORE[t].invitees # <<>>

\* C10: the invitee list never holds an email twice, and add_invitees keeps
\* the existing entries in place and appends exactly the new emails, ordered
\* by their first occurrence in the request
C10_InviteesDeduped ==
    [][\A t \in ThreadIds :
          HasPlan(t)' =>
              /\ NoDuplicates(PLAN_STORE'[t].invitees)
              /\ (HasPlan(t) /\ last'.type = "add_invitees") =>
                    LET old == PLAN_STORE[t].invitees
                        new == PLAN_STORE'[t].invitees
                        req == last'.emails
                    IN  /\ Len(new) >= Len(old)
                        /\ SubSeq(new, 1, Len(old)) = old
                        /\ Range(new) = Range(old) \cup Range(req)
                        /\ \A i, j \in (Len(old) + 1)..Len(new) :
                               i < j => FirstIndex(req, new[i]) < FirstIndex(req, new[j])]_vars

\* C10 witness: adding [a, a, b] to the empty list of a plan at
\* select_invitees yielded [a, b]
C10_Witness ==
    \E t \in ThreadIds :
        /\ HasPlan(t)
        /\ last.type = "add_invitees"
        /\ last.pre_stage = "select_invitees"
        /\ last.emails = <<"a@x.com", "a@x.com", "b@x.com">>
        /\ PLAN_STORE[t].invitees = <<"a@x.com", "b@x.com">>

(* ---------------------------- scheduler properties --------------------- *)

TaskIndexes(plan) == 1..Len(plan.ops_timeline)

\* the tasks of a timeline that are in a given status
InStatus(plan, status) == {i \in TaskIndexes(plan) : plan.ops_timeline[i].status = status}

\* the scheduled tasks whose time has arrived
DueTasks(plan, now) ==
    {i \in InStatus(plan, "scheduled") : plan.ops_timeline[i].scheduledAt <= now}

Min(a, b) == IF a < b THEN a ELSE b

\* C11: a single Tick call never moves more than maxSteps tasks to done,
\* whatever the timeline, now and maxSteps; with maxSteps 0 it executes none
C11_TickBudget ==
    [][last'.type = "tick" =>
        LET old == PLAN_STORE[last'.thread_id]
            new == PLAN_STORE'[last'.thread_id]
        IN  /\ Cardinality(InStatus(new, "done") \ InStatus(old, "done")) <= last'.maxSteps
            /\ Len(last'.processed) <= last'.maxSteps]_vars

\* a tick with budget 1 executed one task and left another due task waiting
C11_Witness ==
    /\ last.type = "tick"
    /\ last.maxSteps = 1
    /\ Len(last.processed) = 1
    /\ DueTasks(PLAN_STORE[last.thread_id], last.now) # {}

\* C12: done is absorbing under Tick: a task that is done stays done with
\* its result, whatever the now of the tick, and is not executed again; no
\* tick executes a task twice
C12_DoneAbsorbing ==
    [][last'.type = "tick" =>
        LET old == PLAN_STORE[last'.thread_id]
            new == PLAN_STORE'[last'.thread_id]
        IN  /\ \A i \in InStatus(old, "done") :
                   /\ new.ops_timeline[i] = old.ops_timeline[i]
                   /\ old.ops_timeline[i].kind \notin Range(last'.processed)
                   /\ new.ops[old.ops_timeline[i].kind] = old.ops[old.ops_timeline[i].kind]
            /\ NoDuplicates(last'.processed)
            /\ Len(new.ops_timeline) = Len(old.ops_timeline)]_vars

\* a tick with an earlier now than the tasks already done, and a tick that
\* executed a task next to one done before
C12_Witness ==
    /\ last.type = "tick"
    /\ Len(last.processed) >= 1
    /\ \E i \in InStatus(PLAN_STORE[last.thread_id], "done") :
           /\ PLAN_STORE[last.thread_id].ops_timeline[i].kind \notin Range(last.processed)
           /\ PLAN_STORE[last.thread_id].ops_timeline[i].scheduledAt <= last.now

C14_RemainingCount ==
    [][last'.type = "tick" =>
        LET new == PLAN_STORE'[last'.thread_id]
        IN  /\ last'.remaining = Cardinality(InStatus(new, "scheduled"))
            /\ new.ops_timeline = <<>> => last'.remaining = 0]_vars

\* a tick that left a due task to the next tick and a later task to the clock
C14_Witness ==
    /\ last.type = "tick"
    /\ Len(last.processed) >= 1
    /\ DueTasks(PLAN_STORE[last.thread_id], last.now) # {}
    /\ \E i \in InStatus(PLAN_STORE[last.thread_id], "scheduled") :
           PLAN_STORE[last.thread_id].ops_timeline[i].scheduledAt > last.now
    /\ last.remaining >= 2

\* C15: the Send stage on a plan whose venue contains "home" in any case
\* creates exactly 5 tasks, all scheduled, in the order decide_menu,
\* grocery_shopping, wifi_access, secure_locks, post_cleanup, at the event
\* date and time minus 3 days, minus 1 day 2 hours, minus 2 hours, plus 3
\* hours and plus 4 hours; the event time is 19:00 when no time is set
C15_Kinds == <<"decide_menu", "grocery_shopping", "wifi_access", "secure_locks", "post_cleanup">>

C15_Offsets == <<-4320, -1560, -120, 180, 240>>

C15_HomeVenues == {"Home - Backyard dinner", "HOME sweet home"}

C16_AwayVenues == {"Trendy lounge"}

C16_NoTimelineAwayFromHome ==
    [][\A t \in ThreadIds :
        /\ (/\ last'.type = "send_stage"
            /\ PLAN_STORE[t] # PLAN_STORE'[t]
            /\ PLAN_STORE[t].venue \in C16_AwayVenues) =>
               /\ PLAN_STORE'[t].stage = "sent"
               /\ PLAN_STORE'[t].ops_timeline = <<>>
        /\ (/\ HasPlan(t)
            /\ PLAN_STORE[t].invite_result # NoResult
            /\ PLAN_STORE[t].ops_timeline = <<>>) =>
               /\ PLAN_STORE'[t].ops_timeline = <<>>
               /\ (last'.type = "tick" /\ last'.thread_id = t) =>
                      /\ last'.processed = <<>>
                      /\ last'.remaining = 0
                      /\ PLAN_STORE'[t] = PLAN_STORE[t]]_vars

\* a tick, late enough for any task, on a plan sent for the lounge
C16_Witness ==
    /\ last.type = "tick"
    /\ last.now = (Today + 31) * 1440
    /\ last.maxSteps = 10
    /\ PLAN_STORE[last.thread_id].venue = "Trendy lounge"
    /\ PLAN_STORE[last.thread_id].stage = "sent"
    /\ PLAN_STORE[last.thread_id].ops_timeline = <<>>

\* C17: a timeline once created is never recreated: no action and no
\* pipeline re-run replaces the task list or takes a task back to scheduled,
\* and only a Tick changes the status or result of a task
C17_TimelineCreatedOnce ==
    [][\A t \in ThreadIds :
        (HasPlan(t) /\ PLAN_STORE[t].ops_timeline # <<>>) =>
            LET old == PLAN_STORE[t]
                new == PLAN_STORE'[t]
            IN  /\ Len(new.ops_timeline) = Len(old.ops_timeline)
                /\ \A i \in TaskIndexes(old) :
                       /\ new.ops_timeline[i].kind = old.ops_timeline[i].kind
                       /\ new.ops_timeline[i].scheduledAt = old.ops_timeline[i].scheduledAt
                       /\ new.ops_timeline[i].dueAt = old.ops_timeline[i].dueAt
                       /\ old.ops_timeline[i].status = "done" =>
                              new.ops_timeline[i].status = "done"
                /\ last'.type # "tick" =>
                       /\ new.ops_timeline = old.ops_timeline
                       /\ new.ops = old.ops]_vars

\* confirm_send, with its pipeline re-run, on a plan whose timeline is
\* partly done
C17_Witness ==
    /\ last.type = "confirm_send"
    /\ \E t \in ThreadIds :
           /\ HasPlan(t)
           /\ InStatus(PLAN_STORE[t], "done") # {}
           /\ InStatus(PLAN_STORE[t], "scheduled") # {}
           /\ PLAN_STORE[t].stage = "review_invite"

\* C19: operations on different threads are independent: a request on one
\* thread (an action, a Tick, a save) leaves the persisted plan of every
\* other thread as it was, however the requests of the threads alternate
C19_ThreadsIndependent ==
    [][\A t \in ThreadIds : t # last'.thread_id => PLAN_STORE'[t] = PLAN_STORE[t]]_vars

\* a tick executed tasks of one thread while the other thread holds a plan
\* whose tasks are all still scheduled
C19_Witness ==
    /\ last.type = "tick"
    /\ Len(last.processed) >= 1
    /\ \E t \in ThreadIds :
           /\ t # last.thread_id
           /\ HasPlan(t)
           /\ Len(PLAN_STORE[t].ops_timeline) = 5
           /\ InStatus(PLAN_STORE[t], "done") = {}

\* C20: an action with an empty required field or a malformed date
\* (change_theme with an empty theme, change_venue with an empty venue,
\* choose_time with an empty time, change_date with an empty or unparsable
\* date) is rejected and leaves the persisted plan unmodified in every field
C20_InvalidActionRejected ==
    [][last'.invalid => PLAN_STORE' = PLAN_STORE]_vars

\* C18: read-modify-write of one thread's plan is atomic towards the other
\* requests on the thread: once a theme edit and a Tick that ran at the same
\* time have both finished, the persisted plan has the new theme, and every
\* task the tick completed is done in it and has its entry in the Ops
\* results; no update is lost
C18_NoLostUpdate ==
    (/\ inflight.theme.pc = "done"
     /\ inflight.tick.pc = "done"
     /\ inflight.theme.thread_id = inflight.tick.thread_id) =>
        LET plan == PLAN_STORE[inflight.tick.thread_id]
        IN  /\ plan.theme = inflight.theme.theme
            /\ \A i \in TaskIndexes(plan) :
                   plan.ops_timeline[i].kind \in Range(inflight.tick.processed) =>
                       /\ plan.ops_timeline[i].status = "done"
                       /\ plan.ops_timeline[i].has_result
                       /\ plan.ops_timeline[i].kind \in DOMAIN plan.ops

C22_RouterTotality ==
    last.type = "route"
        => /\ NoDuplicates(last.order)
           /\ Range(last.order) \subseteq NODE_FUN
           /\ Len(last.order) >= 2
           /\ last.order[1] = "getting_started"
           /\ last.order[2] = "celebrations"

C22_Witness ==
    /\ last.type = "route"
    /\ last.ctx.is_weekend
    /\ last.ctx.day_load = "heavy"
    /\ last.ctx.night_owl
    /\ last.ctx.role = "GenZ Creator"
    /\ Len(last.order) = 11

\* C23: for every calendar, every free block of the derived DayContext has
\* minutes >= 0, and longest_block is the largest of the block minutes, 0 when
\* there is no block
C23_FreeBlocksNonNegative ==
    last.type = "plan_day"
        => LET blocks == last.ctx.free_blocks IN
           /\ \A i \in 1..Len(blocks) : blocks[i].minutes >= 0
           /\ \A i \in 1..Len(blocks) : blocks[i].minutes <= last.ctx.longest_block
           /\ IF Len(blocks) = 0
              THEN last.ctx.longest_block = 0
              ELSE \E i \in 1..Len(blocks) : blocks[i].minutes = last.ctx.longest_block

\* a calendar whose text order is not its clock order: the gap from "21:00"
\* to "9:00" is clamped to 0 beside blocks of positive length
C23_Witness ==
    /\ last.type = "plan_day"
    /\ \E i \in 1..Len(last.ctx.free_blocks) :
           /\ last.ctx.free_blocks[i].start = Clock.t2100
           /\ last.ctx.free_blocks[i].end = Clock.t900
           /\ last.ctx.free_blocks[i].minutes = 0
    /\ last.ctx.longest_block > 0

C25_CreationOrderIsChronological ==
    /\ \A t \in ThreadIds :
          HasPlan(t) =>
              LET tasks == PLAN_STORE[t].ops_timeline IN
              \A i, j \in 1..Len(tasks) :
                  i < j => /\ tasks[i].scheduledAt <= tasks[j].scheduledAt
                           /\ tasks[j].status = "done" => tasks[i].status = "done"
    /\ last.type = "tick"
          => \A a, b \in 1..Len(last.processed) :
                 a < b => FirstIndex(HomeOpsKinds, last.processed[a])
                              < FirstIndex(HomeOpsKinds, last.processed[b])

C25_Witness ==
    /\ last.type = "tick"
    /\ Len(last.processed) = 2
    /\ last.processed[1] = "grocery_shopping"
    /\ last.remaining = 2

\* C26: after any sequence of ticks, every done task carries a result and the
\* plan's ops map holds that same result under the task's kind; a scheduled
\* task carries no result and its kind has no entry in the map
C26_ResultOnTaskAndInMap ==
    \A t \in ThreadIds :
        HasPlan(t) =>
            LET plan == PLAN_STORE[t] IN
            \A i \in 1..Len(plan.ops_timeline) :
                LET task == plan.ops_timeline[i] IN
                /\ task.status = "done"
                      => /\ task.has_result
                         /\ task.kind \in DOMAIN plan.ops
                         /\ plan.ops[task.kind] = task.result
                /\ task.status = "scheduled"
                      => /\ ~task.has_result
                         /\ task.kind \notin DOMAIN plan.ops

C26_Witness ==
    \E t \in ThreadIds :
        /\ HasPlan(t)
        /\ Len(PLAN_STORE[t].ops_timeline) = 5
        /\ PLAN_STORE[t].ops_timeline[2].status = "done"
        /\ PLAN_STORE[t].ops_timeline[2].result = [list |-> 9, ordered |-> TRUE]
        /\ PLAN_STORE[t].ops_timeline[3].status = "scheduled"
        /\ last.type # "tick"

\* C27: for the five home tasks under any sequence of ticks, whenever
\* grocery_shopping has been executed, decide_menu is done and its result is in
\* the ops map, and the grocery list has one entry per dish of the decided menu
\* plus the four fixed items, never the two entries of the no-menu default
C27_GroceryFollowsMenu ==
    \A t \in ThreadIds :
        HasPlan(t) =>
            LET plan == PLAN_STORE[t] IN
            \A i \in 1..Len(plan.ops_timeline) :
                (plan.ops_timeline[i].kind = "grocery_shopping"
                    /\ plan.ops_timeline[i].status = "done")
                    => /\ \E j \in 1..(i - 1) :
                              /\ plan.ops_timeline[j].kind = "decide_menu"
                              /\ plan.ops_timeline[j].status = "done"
                       /\ "decide_menu" \in DOMAIN plan.ops
                       /\ plan.ops_timeline[i].result.list = plan.ops["decide_menu"].dishes + 4
                       /\ plan.ops_timeline[i].result.list # 2 + 4

\* the menu was decided by one tick and the groceries ordered by a later one
C27_Witness ==
    /\ last.type = "tick"
    /\ last.processed = <<"grocery_shopping">>
    /\ PLAN_STORE[last.thread_id].ops["grocery_shopping"].list = 9

\* C28: in the routed order life_after_work comes immediately after learning
\* when there is an evening engagement (the last event is at or after 19:00, or
\* the party and family counts sum above 0) and is the second-to-last entry
\* otherwise, whatever the meeting density and the load
C28_LifeAfterWorkPlacement ==
    last.type = "route"
        => LET order == last.order
               ctx == last.ctx
               evening == \/ /\ ctx.last_event_time # Clock.none
                                /\ _to_minutes(ctx.last_event_time) >= 19 * 60
                          \/ ctx.event_types.party + ctx.event_types.family > 0
           IN  /\ "life_after_work" \in Range(order)
               /\ "learning" \in Range(order)
               /\ IF evening
                  THEN FirstIndex(order, "life_after_work") = FirstIndex(order, "learning") + 1
                  ELSE FirstIndex(order, "life_after_work") = Len(order) - 1

\* C29: with a light load, fitness is at index 2 of the routed order, index 3
\* for a night-owl profile (counting from 0), for every role, on weekdays and
\* weekends alike
C29_FitnessEarlyOnLightLoad ==
    (last.type = "route" /\ last.ctx.day_load = "light")
        => /\ "fitness" \in Range(last.order)
           /\ FirstIndex(last.order, "fitness") = (IF last.ctx.night_owl THEN 3 ELSE 2) + 1

\* C29 as amended: with a light load, fitness is at index 2 (index 3 for a
\* night-owl profile) of the working sequence right after the load rule, and at
\* that index of the routed order too, except for a night-owl profile on a
\* weekend, where the later move of life_after_work from index 2 leaves fitness
\* at index 2
C29_FitnessEarlyAfterLoadRule ==
    (last.type = "route" /\ last.ctx.day_load = "light")
        => /\ "fitness" \in Range(last.after_load)
           /\ FirstIndex(last.after_load, "fitness") = (IF last.ctx.night_owl THEN 3 ELSE 2) + 1
           /\ "fitness" \in Range(last.order)
           /\ FirstIndex(last.order, "fitness")
                  = (IF last.ctx.night_owl /\ ~last.ctx.is_weekend THEN 3 ELSE 2) + 1

C29_Witness ==
    /\ last.type = "route"
    /\ last.ctx.day_load = "light"
    /\ last.ctx.night_owl
    /\ last.ctx.is_weekend
    /\ last.after_load[4] = "fitness"
    /\ last.order[3] = "fitness"

\* C30: on a weekend, right after the weekend rule the working sequence has
\* life_after_work, finance_errands, learning, and then hobby when the role's
\* list contains it, directly after the two seed entries, work_life in
\* second-to-last position and traffic in third-from-last position
C30_WeekendOrder ==
    (last.type = "route" /\ last.ctx.is_weekend)
        => LET seq == last.after_weekend
               n == Len(seq)
               with_hobby == ~(last.ctx.role = "GenZ Creator" /\ ~last.ctx.night_owl)
           IN  /\ SubSeq(seq, 1, 5) = <<"getting_started", "celebrations", "life_after_work",
                                        "finance_errands", "learning">>
               /\ with_hobby <=> "hobby" \in Range(seq)
               /\ with_hobby => seq[6] = "hobby"
               /\ seq[n - 1] = "work_life"
               /\ seq[n - 2] = "traffic"

C30_Witness ==
    /\ last.type = "route"
    /\ last.ctx.is_weekend
    /\ last.ctx.role = "GenZ Creator"
    /\ ~last.ctx.night_owl
    /\ Len(last.after_weekend) = 10
    /\ last.after_weekend[6] = "nutrition"

\* C31: for a calendar with at least one event the free blocks are, in this
\* order, a block from 06:00 to the first event exactly when the first event is
\* after 08:00, one block for each pair of consecutive events, and a block from
\* the last event to 22:30 exactly when the last event is before 20:30; events
\* at 09:00 and 11:30 only give blocks of 180, 150 and 660 minutes and a light
\* load
C31_FreeBlocksLayout ==
    (last.type = "plan_day" /\ Len(last.ctx.events) > 0)
        => LET events == last.ctx.events
               n == Len(events)
               blocks == last.ctx.free_blocks
               morning == IF _to_minutes(events[1].time) > 8 * 60
                          THEN <<[start |-> Clock.t0600, end |-> events[1].time]>> ELSE <<>>
               gaps == [i \in 1..(n - 1) |->
                           [start |-> events[i].time, end |-> events[i + 1].time]]
               evening == IF _to_minutes(events[n].time) < 20 * 60 + 30
                          THEN <<[start |-> events[n].time, end |-> Clock.t2230]>> ELSE <<>>
           IN  /\ [i \in 1..Len(blocks) |-> [start |-> blocks[i].start, end |-> blocks[i].end]]
                      = morning \o gaps \o evening
               /\ DOMAIN last.cal = {Clock.t0900, Clock.t1130}
                      => /\ [i \in 1..Len(blocks) |-> blocks[i].minutes] = <<180, 150, 660>>
                         /\ last.ctx.day_load = "light"

\* C32: DayContext has at most two focus windows: the longest free block of at
\* least 45 minutes whose start is at or before 12:00, then the longest free
\* block of at least 45 minutes whose start is after 12:00 and at or before
\* 18:30; a category with no qualifying block is omitted, and a block starting
\* after 18:30 is never a focus window
C32_FocusWindows ==
    last.type = "plan_day"
        => LET blocks == last.ctx.free_blocks
               windows == last.ctx.focus_windows
               Morning == {i \in 1..Len(blocks) :
                              /\ blocks[i].minutes >= 45
                              /\ _to_minutes(blocks[i].start) <= 12 * 60}
               Afternoon == {i \in 1..Len(blocks) :
                                /\ blocks[i].minutes >= 45
                                /\ _to_minutes(blocks[i].start) > 12 * 60
                                /\ _to_minutes(blocks[i].start) <= 18 * 60 + 30}
               IsBestOf(w, S) ==
                   \E i \in S : /\ w.window = <<blocks[i].start, blocks[i].end>>
                                 /\ w.minutes = blocks[i].minutes
                                 /\ \A j \in S : blocks[j].minutes <= blocks[i].minutes
           IN  /\ Len(windows) = (IF Morning = {} THEN 0 ELSE 1)
                                     + (IF Afternoon = {} THEN 0 ELSE 1)
               /\ Morning # {} => IsBestOf(windows[1], Morning)
               /\ Afternoon # {} => IsBestOf(windows[Len(windows)], Afternoon)

\* C33: the time options computed for a plan are at most three distinct
\* times: the availability times whose clock reading lies within 18:00-21:00
\* when there is one, otherwise the first three availability times; after a
\* change of date they are computed anew from the new availability.
C33_TimeOptions ==
    [][(\/ last.type = "times_request"
        \/ last.type = "time_options" /\ ~last.recomputed /\ last'.recomputed)
       => LET plan == last'.plan
              InClockWindow(t) == 18 * 60 <= _to_minutes(t) /\ _to_minutes(t) <= 21 * 60
              evening == SelectSeq(plan.availability, InClockWindow)
          IN  /\ Len(plan.time_options) <= 3
              /\ NoDuplicates(plan.time_options)
              /\ plan.time_options =
                     IF evening # <<>> THEN Take(evening, 3) ELSE Take(plan.availability, 3)]_vars

\* C34: after every action that re-runs the graph the persisted stage is one
\* of review_theme_venue, pick_time, select_invitees, review_invite and sent,
\* and it agrees with the plan's data: at pick_time no time is set; at
\* select_invitees a time is set and the invitee list is empty; at
\* review_invite a time is set, the invitee list is not empty, and the invite
\* template and the rendered preview are there.
C34_StageAgreesWithData ==
    last.send_in # NoPlan =>
        LET plan == PLAN_STORE[last.thread_id]
        IN  /\ plan.stage \in {"review_theme_venue", "pick_time", "select_invitees",
                               "review_invite", "sent"}
            /\ plan.stage = "pick_time" => Falsy(plan.time)
            /\ plan.stage = "select_invitees" => ~Falsy(plan.time) /\ plan.invitees = <<>>
            /\ plan.stage = "review_invite" =>
                   /\ ~Falsy(plan.time)
                   /\ plan.invitees # <<>>
                   /\ plan.invite_message_template # ""
                   /\ plan.invite_preview = "rendered"

\* C34 witness: add_invitees on a plan at select_invitees; the graph run
\* composed the invite and left the plan at review_invite.
C34_Witness ==
    /\ last.type = "add_invitees"
    /\ last.send_in # NoPlan
    /\ last.pre_stage = "select_invitees"
    /\ PLAN_STORE[last.thread_id].stage = "review_invite"
    /\ PLAN_STORE[last.thread_id].invite_preview = "rendered"

\* C35: for the five home tasks, after any sequence of ticks with any now and
\* any maxSteps, the done tasks are a prefix of the timeline in creation order
\* (no task is done while an earlier one is still scheduled), and every
\* persisted status is scheduled or done, never running, failed or skipped.
C35_DonePrefix ==
    \A thread_id \in ThreadIds :
        HasPlan(thread_id) =>
            LET tasks == PLAN_STORE[thread_id].ops_timeline
            IN  /\ \A i \in 1..Len(tasks) : tasks[i].status \in {"scheduled", "done"}
                /\ \A i, j \in 1..Len(tasks) :
                       i < j /\ tasks[j].status = "done" => tasks[i].status = "done"

\* C35 witness: a tick with a budget of two ran decide_menu and
\* grocery_shopping of five due tasks; the other three are still scheduled.
C35_Witness ==
    /\ last.type = "tick"
    /\ last.processed = <<"decide_menu", "grocery_shopping">>
    /\ last.remaining = 3
    /\ LET tasks == PLAN_STORE[last.thread_id].ops_timeline
       IN  /\ Len(tasks) = 5
           /\ \A i \in 1..5 : tasks[i].status = (IF i <= 2 THEN "done" ELSE "scheduled")
           /\ \A i \in 1..5 : IsDue(tasks[i], last.now)

\* C36: under a caller that keeps sending ticks with now at or after the
\* latest scheduledAt and maxSteps >= 1, a timeline leads to every task done
\* and a tick that returned remaining 0; each such tick runs
\* min(maxSteps, remaining) tasks, so five tasks take at most five ticks, and
\* one tick when maxSteps >= 5.
C36_TicksDrainTimeline ==
    /\ \A thread_id \in ThreadIds :
           (HasPlan(thread_id) /\ PLAN_STORE[thread_id].ops_timeline # <<>>)
           ~> (/\ last.type = "tick"
               /\ last.thread_id = thread_id
               /\ last.remaining = 0
               /\ \A i \in 1..Len(PLAN_STORE[thread_id].ops_timeline) :
                      PLAN_STORE[thread_id].ops_timeline[i].status = "done")
    /\ [][\A thread_id \in ThreadIds :
             (/\ HasPlan(thread_id)
              /\ last'.type = "tick"
              /\ last'.thread_id = thread_id
              /\ LateTick(thread_id, last'.now, last'.maxSteps))
             => LET before == Remaining(PLAN_STORE[thread_id].ops_timeline)
                    ran == IF last'.maxSteps < before THEN last'.maxSteps ELSE before
                IN  /\ Len(last'.processed) = ran
                    /\ last'.remaining = before - ran
                    /\ last'.maxSteps >= 5 => last'.remaining = 0]_vars

\* C36 witness: a late tick with a budget of ten ran all five tasks at once.
C36_Witness ==
    /\ last.type = "tick"
    /\ last.maxSteps >= 5
    /\ Len(last.processed) = 5
    /\ last.remaining = 0
    /\ \A i \in 1..5 : PLAN_STORE[last.thread_id].ops_timeline[i].status = "done"

\* C37: change_theme and change_venue with a non-empty value set the theme or
\* the venue to that value and leave the plan at review_theme_venue, whatever
\* its stage was; the chosen time, the invitee list, the invite template and
\* the timeline are as before.
C37_ThemeVenueEdit ==
    [][(last'.type \in {"change_theme", "change_venue"} /\ ~last'.invalid)
       => LET pre == PLAN_STORE[last'.thread_id]
              post == PLAN_STORE'[last'.thread_id]
          IN  /\ last'.value # ""
              /\ last'.type = "change_theme" => post.theme = last'.value
              /\ last'.type = "change_venue" => post.venue = last'.value
              /\ post.stage = "review_theme_venue"
              /\ post.time = pre.time
              /\ post.invitees = pre.invitees
              /\ post.invite_message_template = pre.invite_message_template
              /\ post.ops_timeline = pre.ops_timeline]_vars

\* C37 witness: a change of venue on a sent plan whose timeline has a done
\* task; the plan is back at review_theme_venue with time, invitees and
\* timeline in place.
C37_Witness ==
    /\ last.type = "change_venue"
    /\ ~last.invalid
    /\ last.pre_stage = "sent"
    /\ LET plan == PLAN_STORE[last.thread_id]
       IN  /\ plan.stage = "review_theme_venue"
           /\ plan.venue = last.value
           /\ ~Falsy(plan.time)
           /\ plan.invitees # <<>>
           /\ Len(plan.ops_timeline) = 5
           /\ plan.ops_timeline[1].status = "done"

\* C38: a tick changes only the status and result of the tasks it runs and
\* the entries of the results map under their kinds: stage, date, time, theme,
\* venue, budget, invitees and invite template are as before the tick, the
\* tasks keep their number, order, kind and scheduledAt, a task the tick did
\* not run is as before, and so is every other entry of the results map.
C38_TickFrame ==
    [][last'.type = "tick"
       => LET pre == PLAN_STORE[last'.thread_id]
              post == PLAN_STORE'[last'.thread_id]
              ran == Range(last'.processed)
          IN  /\ \A f \in {"stage", "date", "time", "theme", "venue", "budget", "invitees",
                            "invite_message_template"} : post[f] = pre[f]
              /\ Len(post.ops_timeline) = Len(pre.ops_timeline)
              /\ \A i \in 1..Len(pre.ops_timeline) :
                     /\ post.ops_timeline[i].kind = pre.ops_timeline[i].kind
                     /\ post.ops_timeline[i].scheduledAt = pre.ops_timeline[i].scheduledAt
                     /\ pre.ops_timeline[i].kind \notin ran
                            => post.ops_timeline[i] = pre.ops_timeline[i]
              /\ \A k \in DOMAIN pre.ops :
                     k \in DOMAIN post.ops /\ (k \notin ran => post.ops[k] = pre.ops[k])
              /\ DOMAIN post.ops \subseteq DOMAIN pre.ops \cup ran]_vars

\* C38 witness: a tick that ran grocery_shopping and wifi_access on a sent
\* plan whose decide_menu was done before; post_cleanup is still scheduled.
C38_Witness ==
    /\ last.type = "tick"
    /\ last.processed = <<"grocery_shopping", "wifi_access">>
    /\ LET plan == PLAN_STORE[last.thread_id]
       IN  /\ plan.stage = "sent"
           /\ Len(plan.ops_timeline) = 5
           /\ DOMAIN plan.ops = {"decide_menu", "grocery_shopping", "wifi_access"}
           /\ plan.ops_timeline[5].status = "scheduled"

\* C39: every StartPlan returns a thread identifier that no persisted plan
\* has, so a start never overwrites a plan, also when two plans are started
\* for the same profile within the same second.
C39_StartNeverOverwrites ==
    [][last'.type = "start" => ~HasPlan(last'.thread_id)]_vars

\* C40: the routed order is a permutation of the role's seeded list with
\* relaxation last: each of the eleven known agents exactly once for every
\* role and context, except for the GenZ role without night-owl, whose order
\* has ten names and no hobby.
C40_RouteIsPermutation ==
    last.type = "route" =>
        LET ctx == last.ctx
            seeded == RoleSequence(ctx.role, ctx.night_owl)
            order == last.order
        IN  /\ Len(order) = Len(seeded)
            /\ Range(order) = Range(seeded)
            /\ NoDuplicates(order)
            /\ order[Len(order)] = "relaxation"
            /\ IF RoleKind(ctx.role) = "genz" /\ ~ctx.night_owl
               THEN Len(order) = 10 /\ Range(order) = NODE_FUN \ {"hobby"}
               ELSE Len(order) = 11 /\ Range(order) = NODE_FUN

\* C40 witness: a GenZ profile without night-owl on a weekend with a heavy
\* load and an evening event; every rule moved a name, the order has the ten
\* names of the seeded list and differs from it.
C40_Witness ==
    /\ last.type = "route"
    /\ RoleKind(last.ctx.role) = "genz"
    /\ ~last.ctx.night_owl
    /\ last.ctx.is_weekend
    /\ last.ctx.day_load = "heavy"
    /\ last.ctx.last_event_time = Clock.t2100
    /\ Len(last.order) = 10
    /\ last.order # RoleSequence(last.ctx.role, last.ctx.night_owl)
    /\ last.order[10] = "relaxation"

====
